---- MODULE Spec2Model ----
(***************************************************************************)
(* A model of malaev/ai-review: the retry wrapper, the unified-diff        *)
(* parser, the review-comment validator with its batch / per-comment       *)
(* submission, and the pull-request flow of the controller.                *)
(*                                                                         *)
(* Each part has a specification of its own over the same variables:      *)
(*   SpecRetry   withRetry                      (src/src/utils/retry.ts)   *)
(*   SpecDiff    parseDiffToChangedLines        (src/src/utils.ts)         *)
(*   Spec        GitHubAdapter.createReview     (src/src/adapter.ts)       *)
(*               handlePullRequestEvent         (src/src/controller.ts)    *)
(*   SpecSearch  findMostSimilarLine            (src/src/utils.ts)         *)
(*   SpecMain    main with analyzeFile          (src/unnamed/part_004)     *)
(*   SpecEntry   main, createControllerFromEnv  (src/unnamed/part_001)     *)
(*   SpecLev     levenshteinDistance            (src/src/utils.ts)         *)
(*   SpecFetch   fetchFromDeepSeekAPI           (src/src/utils.ts)         *)
(*   SpecComment handleCommentEvent             (src/src/controller.ts)    *)
(*   SpecMerge   commentOnPR                    (src/src/index.ts)         *)
(*   SpecMapper  analyzeCodeContent, analyzeFile on one issue              *)
(* The variables of the parts a specification does not run stay idle.      *)
(***************************************************************************)
EXTENDS Integers, Sequences, FiniteSets, TLC

VARIABLES
  \* withRetry
  rpc,          \* position: "idle", "call", "delay", "returned", "rejected"
  retries,      \* the retries parameter of the current (recursive) invocation
  retries0,     \* the retries argument of the outermost invocation
  calls,        \* number of times operation() has been invoked
  raised,       \* the errors operation() has raised, in order
  outcome,      \* what withRetry returned or rejected with
  \* parseDiffToChangedLines
  patch,        \* the patch being scanned: a sequence of diff lines
  pos,          \* number of diff lines scanned so far
  currentLine,  \* the running counter
  changedLines, \* the set built so far
  \* GitHubAdapter.createReview
  cpc,          \* position: "idle", "start", "batch", "fallback", "done", "thrown"
  prFiles,      \* the pull request's files as the forge lists them
  comments,     \* the comments createReview was called with
  validated,    \* validatedComments
  validateFailed, \* validateComments went through its catch block
  batchSent,    \* the comment lists handed to pulls.createReview, in order
  singles,      \* the comments handed to pulls.createReviewComment, in order
  idx,          \* the loop variable i of the per-comment fallback
  successCount,
  failCount,
  batchStatus,  \* 0 before the batch call, 200 when accepted, else its error status
  thrown,       \* the status of the error createReview rejected with, 0 if none
  \* CodeReviewController.handlePullRequestEvent
  ppc,          \* position: "idle", "start", "analyze", "review", "done", "thrown"
  files,        \* what getChangedFiles returned
  fileIdx,      \* number of files analyzed so far
  allComments,
  responses,    \* the LLM exchange of each analyzed file, in order
  fileComments, \* what the mapper returned for each analyzed file, in order
  llmCalls,     \* number of requests sent to the LLM endpoint
  \* findMostSimilarLine
  targetLine,   \* the code searched for
  fileLines,    \* the lines of the file
  startLine,    \* the range the caller passes
  endLine,
  scanIdx,      \* the loop variable i; -1 before the loop starts
  bestMatch,
  \* main (entry point)
  epc,          \* position: "idle", "start", "event", "data", "dispatch",
                \* "handling", "exited"
  env,          \* the environment variables read
  exitCode,     \* the exit status once the process is over, -1 before
  netCalls,     \* number of forge or LLM requests issued
  \* levenshteinDistance
  strA,         \* the arguments a and b
  strB,
  distance,     \* the result, -1 before the call returns
  \* fetchFromDeepSeekAPI
  fpc,          \* position: "idle", "loop", "wait", "returned", "thrown"
  fetchRetries, \* the retries argument
  initialDelay, \* the initialDelay argument
  attempt,
  delay,
  requests,     \* what each HTTP request made so far ended with, in order
  waits,        \* the delays waited so far, in order
  fetchResult,  \* the status of the response returned, 0 if none
  \* CodeReviewController.handleCommentEvent
  hpc,          \* position: "idle", "start", "list", "find", "content",
                \* "generate", "reply", "done"
  thread,       \* the review comments of the pull request on the forge, by id
  inbound,      \* commentId: the comment the event is about
  listedComments, \* allComments, as listComments returned it
  parent,       \* the id of parentComment, 0 when there is none
  replyRequests, \* number of requests sent to the LLM endpoint for replies
  replies,      \* number of replies posted
  pending,      \* comment events the forge has raised and nobody handled yet
  \* commentOnPR
  mpc,          \* position: "idle", "start", "analyzing", "filter", "review",
                \* "done"
  listing,      \* files, as pulls.listFiles returned them
  analyses,     \* what analyzeFile resolves with, for each file analyzed
  settled,      \* the analyses that have resolved, in the order they did
  results,      \* the array Promise.all fills and resolves with
  handed,       \* the comment lists handed to pulls.createReview, in order
  \* the mappers, each on one issue
  mapTexts,     \* fileLines: the lines of the (capped) content
  mapIssue,     \* the issue of the LLM response
  mapVariant,   \* "none", then "analyzeCodeContent" or "analyzeFile"
  mapOutput     \* the comments the mapper gave for the issue

retryVars  == <<rpc, retries, retries0, calls, raised, outcome>>
diffVars   == <<patch, pos, currentLine, changedLines>>
reviewVars == <<cpc, prFiles, comments, validated, validateFailed, batchSent,
                batchStatus, singles, idx, successCount, failCount, thrown>>
prVars     == <<ppc, files, fileIdx, allComments, responses, fileComments,
                llmCalls>>
searchVars == <<targetLine, fileLines, startLine, endLine, scanIdx, bestMatch>>
entryVars  == <<epc, env, exitCode, netCalls>>
levVars    == <<strA, strB, distance>>
fetchVars  == <<fpc, fetchRetries, initialDelay, attempt, delay, requests,
                waits, fetchResult>>
commentVars == <<hpc, thread, inbound, listedComments, parent, replyRequests,
                 replies, pending>>
mergeVars  == <<mpc, listing, analyses, settled, results, handed>>
mapperVars == <<mapTexts, mapIssue, mapVariant, mapOutput>>
vars       == <<retryVars, diffVars, reviewVars, prVars, searchVars, entryVars, levVars, fetchVars, commentVars, mergeVars, mapperVars>>

\* What the actions of one part leave alone.
notRetry  == <<diffVars, reviewVars, prVars, searchVars, entryVars, levVars, fetchVars, commentVars, mergeVars, mapperVars>>
notDiff   == <<retryVars, reviewVars, prVars, searchVars, entryVars, levVars, fetchVars, commentVars, mergeVars, mapperVars>>
notReview == <<retryVars, diffVars, prVars, searchVars, entryVars, levVars, fetchVars, commentVars, mergeVars, mapperVars>>
notFlow   == <<retryVars, diffVars, searchVars, entryVars, levVars, fetchVars, commentVars, mergeVars, mapperVars>>
notSearch == <<retryVars, diffVars, reviewVars, prVars, entryVars, levVars, fetchVars, commentVars, mergeVars, mapperVars>>
notEntry  == <<retryVars, diffVars, reviewVars, prVars, searchVars, levVars, fetchVars, commentVars, mergeVars, mapperVars>>
notMapper == <<retryVars, diffVars, reviewVars, prVars, searchVars, entryVars, levVars, fetchVars, commentVars, mergeVars>>
notMerge  == <<retryVars, diffVars, reviewVars, prVars, searchVars, entryVars, levVars, fetchVars, commentVars, mapperVars>>
notComment == <<retryVars, diffVars, reviewVars, prVars, searchVars, entryVars, levVars, fetchVars, mergeVars, mapperVars>>
notFetch  == <<retryVars, diffVars, reviewVars, prVars, searchVars, entryVars, levVars, commentVars, mergeVars, mapperVars>>
notLev    == <<retryVars, diffVars, reviewVars, prVars, searchVars, entryVars, fetchVars, commentVars, mergeVars, mapperVars>>

(***************************************************************************)
(* withRetry(operation, retries, retryDelay)                               *)
(***************************************************************************)
\* Largest retries argument tried; MAX_RETRIES lies inside it.
MaxRetriesArg == 4
MAX_RETRIES == 3

\* What an invocation of operation() may raise, and what it may return.
Errors == {"e422", "e500"}
Values == {"v1", "v2"}

NoOutcome == [kind |-> "none"]

RetryIdle ==
  /\ rpc = "idle" /\ retries = 0 /\ retries0 = 0 /\ calls = 0
  /\ raised = <<>> /\ outcome = NoOutcome

RetryInit ==
  /\ rpc = "call"
  /\ retries0 \in 0..MaxRetriesArg
  /\ retries = retries0
  /\ calls = 0
  /\ raised = <<>>
  /\ outcome = NoOutcome

\* `return await operation()` when the operation succeeds.
OperationReturns ==
  /\ rpc = "call"
  /\ \E v \in Values :
       /\ outcome' = [kind |-> "value", value |-> v, at |-> calls + 1]
  /\ calls' = calls + 1
  /\ rpc' = "returned"
  /\ UNCHANGED <<retries, retries0, raised>>
  /\ UNCHANGED notRetry

\* A retry is scheduled at a last-but-one attempt only.
MayRetryOffByOne(r) == r > 1

\* `if (retries > 0)`: the branch the catch block takes after a failed attempt.
MayRetry(r) == r > 0

\* The error the first attempt raised.
FirstCaught(history) == history[1]

\* `throw error`: the error the invocation that gives up has caught, which is
\* the one raised last.
Rethrown(history) == history[Len(history)]

\* operation() raises: the catch block either schedules a retry or rethrows.
\* An error is identified by the attempt that raised it and its class.
OperationThrows ==
  /\ rpc = "call"
  /\ \E e \in Errors :
       LET err == [attempt |-> calls + 1, class |-> e] IN
       /\ raised' = Append(raised, err)
       /\ calls' = calls + 1
       /\ IF MayRetry(retries)
            THEN /\ rpc' = "delay"
                 /\ outcome' = outcome
            ELSE /\ rpc' = "rejected"
                 /\ outcome' = [kind |-> "error", error |-> Rethrown(raised')]
  /\ UNCHANGED <<retries, retries0>>
  /\ UNCHANGED notRetry

\* `await delay(retryDelay); return withRetry(operation, retries - 1, retryDelay)`
DelayThenRecurse ==
  /\ rpc = "delay"
  /\ retries' = retries - 1
  /\ rpc' = "call"
  /\ UNCHANGED <<retries0, calls, raised, outcome>>
  /\ UNCHANGED notRetry

RetryNext == OperationReturns \/ OperationThrows \/ DelayThenRecurse

(***************************************************************************)
(* parseDiffToChangedLines(patch)                                          *)
(***************************************************************************)
\* Longest patch (in diff lines) drawn, and the hunk starts used in headers.
MaxPatchLen == 4
HunkStarts == {1, 4}

\* A diff line is one of: a well-formed hunk header "@@ -a,b +c,d @@" (c kept),
\* a line starting with "@@" that the header pattern does not match, an added
\* line ("+..."), a removed line ("-...") and a context line (" ...").
Hdr(c) == [k |-> "hdr", c |-> c]
BadHdr == [k |-> "bad", c |-> 0]
Add    == [k |-> "add", c |-> 0]
Del    == [k |-> "del", c |-> 0]
Ctx    == [k |-> "ctx", c |-> 0]

DiffLines == {Hdr(c) : c \in HunkStarts} \cup {BadHdr, Add, Del, Ctx}

\* line.startsWith('@@'), the header pattern, line.startsWith('+' / '-')
StartsWithAtAt(l)  == l.k \in {"hdr", "bad"}
HeaderMatches(l)   == l.k = "hdr"
StartsWithPlus(l)  == l.k = "add"
StartsWithMinus(l) == l.k = "del"

\* The line recorded for an added line when the counter is cur.
RecordedLine(cur) == cur

\* A scan that lets a removed line consume a destination line, as an added or
\* a context line does.
ScanCounterAdvancingOnMinus(l, cur) ==
  IF StartsWithAtAt(l)
    THEN IF HeaderMatches(l) THEN l.c - 1 ELSE cur
    ELSE cur + 1

\* One iteration of the for loop: the counter and the set after diff line l.
ScanCounter(l, cur) ==
  IF StartsWithAtAt(l)
    THEN IF HeaderMatches(l) THEN l.c - 1 ELSE cur
    ELSE IF StartsWithMinus(l) THEN cur ELSE cur + 1

ScanSet(l, cur, set) ==
  IF ~StartsWithAtAt(l) /\ StartsWithPlus(l)
    THEN set \cup {RecordedLine(cur)}
    ELSE set

\* The whole function: the set after scanning the first n lines of p.
RECURSIVE CounterAfter(_, _)
CounterAfter(p, n) ==
  IF n = 0 THEN 0 ELSE ScanCounter(p[n], CounterAfter(p, n - 1))

RECURSIVE SetAfter(_, _)
SetAfter(p, n) ==
  IF n = 0 THEN {}
  ELSE ScanSet(p[n], CounterAfter(p, n - 1), SetAfter(p, n - 1))

parseDiffToChangedLines(p) == SetAfter(p, Len(p))

\* The patch of the specification's example:
\* "@@ -1,3 +1,4 @@", " line1", "+line2", " line3", "-line4", " line5".
ExamplePatch == <<Hdr(1), Ctx, Add, Ctx, Del, Ctx>>

RECURSIVE SeqsUpTo(_, _)
SeqsUpTo(S, n) ==
  IF n = 0 THEN {<<>>}
  ELSE LET shorter == SeqsUpTo(S, n - 1) IN
       shorter \cup {Append(s, x) : s \in {t \in shorter : Len(t) = n - 1}, x \in S}

Patches == SeqsUpTo(DiffLines, MaxPatchLen) \cup {ExamplePatch}

DiffIdle ==
  /\ patch = <<>> /\ pos = 0 /\ currentLine = 0 /\ changedLines = {}

DiffInit ==
  /\ patch \in Patches
  /\ pos = 0
  /\ currentLine = 0
  /\ changedLines = {}

\* One iteration of `for (const line of diffLines)`.
ScanLine ==
  /\ pos < Len(patch)
  /\ pos' = pos + 1
  /\ currentLine' = ScanCounter(patch[pos + 1], currentLine)
  /\ changedLines' = ScanSet(patch[pos + 1], currentLine, changedLines)
  /\ UNCHANGED patch
  /\ UNCHANGED notDiff

DiffNext == ScanLine

(***************************************************************************)
(* GitHubAdapter.validateComments and GitHubAdapter.createReview           *)
(*                                                                         *)
(* Every forge call of createReview goes through withRetry, whose result   *)
(* is the first success or the last error (SpecRetry): a wrapped call is   *)
(* one step here, with its final outcome chosen freely.                    *)
(***************************************************************************)
\* Most comments in one createReview call, and the largest comment line.
MaxComments == 2
MaxLine == 7

\* The radius within which a comment is moved to the closest changed line.
SnapDistance == 5

\* Paths: two files of the pull request and one file that is not part of it.
PathA == "a.ts"
PathB == "b.ts"
PathOther == "other.ts"
Paths == {PathA, PathB, PathOther}

\* A comment body is a sequence of tokens; the mapper's body is a header, a
\* description and a footer, and the relocation note is one more token in front.
Tok(t, n) == [t |-> t, n |-> n]
NoteFor(line) == Tok("note", line)
PlainBody == <<Tok("text", 0)>>

Comment(path, line, body) == [path |-> path, line |-> line, body |-> body]

\* A file of the pull request as pulls.listFiles returns it, with its content
\* at the head commit held as its lines. `file.patch` is absent (or empty, which
\* JavaScript also takes as false) when hasPatch is FALSE.
SourceFile(name, hasPatch, p, status, content) ==
  [filename |-> name, hasPatch |-> hasPatch, patch |-> p, status |-> status,
   content |-> content]

\* Patches of the files of a review: no added line; an added first line; an
\* added line after context; added lines in two hunks; added lines around a
\* context line at the top of the file.
ReviewPatches ==
  { <<Hdr(1), Ctx, Del, Ctx>>,
    <<Hdr(1), Add, Ctx>>,
    <<Hdr(1), Ctx, Add>>,
    <<Hdr(1), Ctx, Add, Hdr(4), Del, Add, Add>>,
    <<Hdr(1), Add, Ctx, Add>> }

Abs(x) == IF x < 0 THEN -x ELSE x

Min(S) == CHOOSE x \in S : \A y \in S : x <= y

\* Array.from(changedLines).sort((a, b) => a - b)
RECURSIVE SortedLines(_)
SortedLines(S) ==
  IF S = {} THEN <<>> ELSE <<Min(S)>> \o SortedLines(S \ {Min(S)})

\* `sortedLines[0] || 1`: the first element, or 1 when it is undefined or 0.
ReduceInitial(sorted) ==
  IF sorted = <<>> \/ sorted[1] = 0 THEN 1 ELSE sorted[1]

\* sortedLines.reduce((closest, current) =>
\*   |current - line| < |closest - line| ? current : closest, initial)
RECURSIVE ReduceClosest(_, _, _)
ReduceClosest(sorted, closest, line) ==
  IF sorted = <<>> THEN closest
  ELSE ReduceClosest(Tail(sorted),
                     IF Abs(sorted[1] - line) < Abs(closest - line)
                       THEN sorted[1] ELSE closest,
                     line)

ClosestLine(changed, line) ==
  ReduceClosest(SortedLines(changed), ReduceInitial(SortedLines(changed)), line)

\* `Math.abs(closestLine - comment.line) <= 5`
CloseEnough(closest, line) == Abs(closest - line) <= SnapDistance

\* The inline diff parse of validateComments is the text of
\* parseDiffToChangedLines; filesWithoutPatch and changedLinesMap:
FilesWithoutPatch(listed) ==
  {listed[i].filename : i \in {j \in 1..Len(listed) : ~listed[j].hasPatch}}

HasChangedLines(listed, path) ==
  \E i \in 1..Len(listed) : listed[i].hasPatch /\ listed[i].filename = path

\* changedLinesMap.get(path): the entry set last for that filename.
ChangedLinesOf(listed, path) ==
  LET last == CHOOSE i \in 1..Len(listed) :
                /\ listed[i].hasPatch /\ listed[i].filename = path
                /\ \A j \in 1..Len(listed) :
                     (listed[j].hasPatch /\ listed[j].filename = path) => j <= i
  IN parseDiffToChangedLines(listed[last].patch)

\* The body of `for (const comment of comments)`: what is pushed to validComments.
ValidateOne(listed, c) ==
  IF c.path \in FilesWithoutPatch(listed) THEN <<c>>
  ELSE IF ~HasChangedLines(listed, c.path) THEN <<>>
  ELSE LET changed == ChangedLinesOf(listed, c.path)
           closest == ClosestLine(changed, c.line)
       IN IF c.line \in changed THEN <<c>>
          ELSE IF CloseEnough(closest, c.line)
                 THEN <<Comment(c.path, closest, <<NoteFor(c.line)>> \o c.body)>>
                 ELSE <<>>

RECURSIVE ValidComments(_, _)
ValidComments(listed, cs) ==
  IF cs = <<>> THEN <<>>
  ELSE ValidateOne(listed, Head(cs)) \o ValidComments(listed, Tail(cs))

\* A validation that gives up every comment when a fetch fails.
validateCommentsFailClosed(listed, cs, fetched) ==
  IF fetched THEN ValidComments(listed, cs) ELSE <<>>

\* validateComments: the try block when both fetches succeed, the catch block
\* (`return comments`) when pulls.get or pulls.listFiles fails.
validateComments(listed, cs, fetched) ==
  IF fetched THEN ValidComments(listed, cs) ELSE cs

ReviewComments ==
  {Comment(p, l, PlainBody) : p \in Paths, l \in 1..MaxLine}

ReviewIdle ==
  /\ cpc = "idle" /\ prFiles = <<>> /\ comments = <<>> /\ validated = <<>>
  /\ validateFailed = FALSE /\ batchSent = <<>> /\ singles = <<>> /\ idx = 0
  /\ successCount = 0 /\ failCount = 0 /\ thrown = 0 /\ batchStatus = 0

\* createReview is called with any comments, on a pull request with file a.ts
\* (with a patch) and file b.ts (without one).
ReviewInit ==
  /\ cpc = "start"
  /\ \E p \in ReviewPatches :
       prFiles = <<SourceFile(PathA, TRUE, p, "modified", <<<<>>>>),
                   SourceFile(PathB, FALSE, <<>>, "modified", <<<<>>>>)>>
  /\ comments \in SeqsUpTo(ReviewComments, MaxComments)
  /\ validated = <<>>
  /\ validateFailed = FALSE
  /\ batchSent = <<>>
  /\ batchStatus = 0
  /\ singles = <<>>
  /\ idx = 0
  /\ successCount = 0
  /\ failCount = 0
  /\ thrown = 0

\* `if (comments.length === 0) return;`
CreateReviewEmpty ==
  /\ cpc = "start"
  /\ Len(comments) = 0
  /\ cpc' = "done"
  /\ UNCHANGED <<prFiles, comments, validated, validateFailed, batchSent,
                 batchStatus, singles, idx, successCount, failCount, thrown>>
  /\ UNCHANGED notReview

\* The batch call is made whatever validation left.
AfterValidationNoCheck(v) == "batch"

\* `if (validatedComments.length === 0) return;`
AfterValidation(v) == IF Len(v) = 0 THEN "done" ELSE "batch"

\* `validatedComments = await this.validateComments(...)` and the return when
\* nothing is left.
CreateReviewValidate ==
  /\ cpc = "start"
  /\ Len(comments) > 0
  /\ \E fetched \in BOOLEAN :
       /\ validated' = validateComments(prFiles, comments, fetched)
       /\ validateFailed' = ~fetched
  /\ cpc' = AfterValidation(validated')
  /\ UNCHANGED <<prFiles, comments, batchSent, batchStatus, singles, idx,
                 successCount, failCount, thrown>>
  /\ UNCHANGED notReview

\* Statuses pulls.createReview may fail with.
BatchErrors == {422, 403, 500}

\* Every failed batch call starts the per-comment loop.
AfterBatchErrorAlwaysFallback(status) == "fallback"

\* `if (githubError.status === 422) {...} else { throw error; }`:
\* where createReview goes after the batch call failed with `status`.
AfterBatchError(status) == IF status = 422 THEN "fallback" ELSE "thrown"

\* withRetry(() => pulls.createReview({comments: validatedComments})) succeeds.
BatchAccepted ==
  /\ cpc = "batch"
  /\ batchSent' = Append(batchSent, validated)
  /\ batchStatus' = 200
  /\ cpc' = "done"
  /\ UNCHANGED <<prFiles, comments, validated, validateFailed, singles, idx,
                 successCount, failCount, thrown>>
  /\ UNCHANGED notReview

\* The batch call fails: 422 starts the per-comment loop, anything else is rethrown.
BatchRejected ==
  /\ cpc = "batch"
  /\ batchSent' = Append(batchSent, validated)
  /\ \E status \in BatchErrors :
       /\ batchStatus' = status
       /\ cpc' = AfterBatchError(status)
       /\ thrown' = IF AfterBatchError(status) = "thrown" THEN status ELSE 0
  /\ UNCHANGED <<prFiles, comments, validated, validateFailed, singles, idx,
                 successCount, failCount>>
  /\ UNCHANGED notReview

\* A failure is caught and not counted.
TallyFailForgotten(count, ok) == count

\* `successCount++` at the end of the try block, `failCount++` in the catch.
TallySuccess(count, ok) == IF ok THEN count + 1 ELSE count
TallyFail(count, ok) == IF ok THEN count ELSE count + 1

\* One iteration of the fallback loop: pulls.get, then pulls.createReviewComment;
\* a failure of either is caught and counted.
FallbackComment ==
  /\ cpc = "fallback"
  /\ idx < Len(validated)
  /\ \E prFetched \in BOOLEAN, created \in BOOLEAN :
       /\ singles' = IF prFetched THEN Append(singles, validated[idx + 1])
                                  ELSE singles
       /\ successCount' = TallySuccess(successCount, prFetched /\ created)
       /\ failCount' = TallyFail(failCount, prFetched /\ created)
  /\ idx' = idx + 1
  /\ UNCHANGED <<cpc, prFiles, comments, validated, validateFailed, batchSent,
                 batchStatus, thrown>>
  /\ UNCHANGED notReview

\* The loop ends and createReview returns.
FallbackDone ==
  /\ cpc = "fallback"
  /\ idx = Len(validated)
  /\ cpc' = "done"
  /\ UNCHANGED <<prFiles, comments, validated, validateFailed, batchSent,
                 batchStatus, singles, idx, successCount, failCount, thrown>>
  /\ UNCHANGED notReview

ReviewNext ==
  \/ CreateReviewEmpty
  \/ CreateReviewValidate
  \/ BatchAccepted
  \/ BatchRejected
  \/ FallbackComment
  \/ FallbackDone

(***************************************************************************)
(* Text: normalizeCode, levenshteinDistance, findMostSimilarLine           *)
(* A string is a sequence of characters.                                   *)
(***************************************************************************)
IsSpace(ch) == ch \in {" ", "\t"}

\* s.trim()
RECURSIVE TrimLeft(_)
TrimLeft(s) ==
  IF s # <<>> /\ IsSpace(Head(s)) THEN TrimLeft(Tail(s)) ELSE s

RECURSIVE TrimRight(_)
TrimRight(s) ==
  IF s # <<>> /\ IsSpace(s[Len(s)]) THEN TrimRight(SubSeq(s, 1, Len(s) - 1)) ELSE s

\* s.replace(/\s+/g, ' '): every run of whitespace becomes one space.
RECURSIVE CollapseSpaces(_)
CollapseSpaces(s) ==
  IF s = <<>> THEN <<>>
  ELSE IF IsSpace(Head(s))
         THEN <<" ">> \o CollapseSpaces(TrimLeft(s))
         ELSE <<Head(s)>> \o CollapseSpaces(Tail(s))

normalizeCode(code) == CollapseSpaces(TrimRight(TrimLeft(code)))

Min3(x, y, z) ==
  IF x <= y /\ x <= z THEN x ELSE IF y <= z THEN y ELSE z

\* A substitution that costs as much as a deletion followed by an insertion.
SubstitutionCostTwo(x, y) == IF x = y THEN 0 ELSE 2

\* `const substitutionCost = a[i - 1] === b[j - 1] ? 0 : 1`
SubstitutionCost(x, y) == IF x = y THEN 0 ELSE 1

\* matrix[j][i] of levenshteinDistance(a, b)
RECURSIVE LevMatrix(_, _, _, _)
LevMatrix(a, b, j, i) ==
  IF j = 0 THEN i
  ELSE IF i = 0 THEN j
  ELSE Min3(LevMatrix(a, b, j, i - 1) + 1,
            LevMatrix(a, b, j - 1, i) + 1,
            LevMatrix(a, b, j - 1, i - 1) + SubstitutionCost(a[i], b[j]))

levenshteinDistance(a, b) == LevMatrix(a, b, Len(b), Len(a))

\* A similarity is distance / max(length): the quotient num/den, NaN for 0/0,
\* or Infinity (the initial bestMatch).
Infinity == [kind |-> "inf", num |-> 0, den |-> 1]
NaN == [kind |-> "nan", num |-> 0, den |-> 1]
Quotient(num, den) ==
  IF den = 0 THEN NaN ELSE [kind |-> "num", num |-> num, den |-> den]

Max2(x, y) == IF x >= y THEN x ELSE y

\* x < y on similarities; every comparison with NaN is false.
SimLess(x, y) ==
  /\ x.kind = "num"
  /\ \/ y.kind = "inf"
     \/ y.kind = "num" /\ x.num * y.den < y.num * x.den

\* A score that equals the threshold is discarded too.
SimAboveOrEqual(x, tenths) ==
  \/ x.kind = "inf"
  \/ x.kind = "num" /\ x.num * 10 >= tenths * x.den

\* x > tenths / 10
SimAbove(x, tenths) ==
  \/ x.kind = "inf"
  \/ x.kind = "num" /\ x.num * 10 > tenths * x.den

\* The search widens the caller's range by this many lines on each side.
SearchMargin == 30

LineSimilarity(target, line) ==
  Quotient(levenshteinDistance(normalizeCode(target), normalizeCode(line)),
           Max2(Len(normalizeCode(target)), Len(normalizeCode(line))))

\* The for loop of findMostSimilarLine from index i (0-based) to searchEnd - 1.
RECURSIVE SearchFrom(_, _, _, _, _)
SearchFrom(target, texts, i, searchEnd, best) ==
  IF i >= searchEnd THEN best
  ELSE LET similarity == LineSimilarity(target, texts[i + 1])
       IN SearchFrom(target, texts, i + 1, searchEnd,
                     IF SimLess(similarity, best.similarity)
                       THEN [lineNumber |-> i + 1, similarity |-> similarity]
                       ELSE best)

\* The search finds a perfect match before it looks at any line.
InitialBestZero(from) == [lineNumber |-> from, similarity |-> Quotient(0, 1)]

\* `let bestMatch = { lineNumber: startLine, similarity: Infinity }`
InitialBest(from) == [lineNumber |-> from, similarity |-> Infinity]

\* searchStart and searchEnd
SearchStart(from) == Max2(0, from - SearchMargin)
SearchEnd(texts, to) == Min({Len(texts), to + SearchMargin})

findMostSimilarLine(target, texts, from, to) ==
  SearchFrom(target, texts, SearchStart(from), SearchEnd(texts, to),
             InitialBest(from))

\* Lines of source text: "const x = 1;", "const y = eval(z);", the empty line,
\* a line of whitespace, and the eval line re-indented or one edit away.
TextX == <<"x">>
TextEval == <<"e", "v">>
TextEmpty == <<>>
TextBlank == <<" ">>
TextEvalIndented == <<"\t", " ", "e", "v", " ">>
TextNear == <<"e", "w">>
TextUnknown == <<"q", "q", "q">>

\* Longest short file drawn for the search, and the number of filler lines of
\* a long file: one more than the margin, so that a range can leave lines out.
MaxFileLen == 2
FillerLen == SearchMargin + 1

SearchTargets == {TextEval, TextEvalIndented, TextNear, TextBlank, TextEmpty}

Filler == [i \in 1..FillerLen |-> TextX]

\* Files searched: every short file, and long files with a line in front of
\* and behind the filler.
SearchFiles ==
  SeqsUpTo({TextX, TextEval, TextEmpty}, MaxFileLen)
    \cup {<<t1>> \o Filler \o <<t2>> : t1 \in {TextEval, TextEmpty},
                                       t2 \in {TextEval, TextBlank}}

SearchIdle ==
  /\ targetLine = <<>> /\ fileLines = <<>> /\ startLine = 0 /\ endLine = 0
  /\ scanIdx = -1 /\ bestMatch = InitialBest(0)

\* findMostSimilarLine is called; the loop variable is at searchStart.
SearchInit ==
  /\ targetLine \in SearchTargets
  /\ fileLines \in SearchFiles
  /\ startLine \in {0, 1, FillerLen, FillerLen + 2}
  /\ endLine \in {0, 1, FillerLen + 2}
  /\ scanIdx = SearchStart(startLine)
  /\ bestMatch = InitialBest(startLine)

\* One iteration of `for (let i = searchStart; i < searchEnd; i++)`.
SearchLine ==
  /\ scanIdx >= 0
  /\ scanIdx < SearchEnd(fileLines, endLine)
  /\ LET similarity == LineSimilarity(targetLine, fileLines[scanIdx + 1])
     IN bestMatch' = IF SimLess(similarity, bestMatch.similarity)
                       THEN [lineNumber |-> scanIdx + 1, similarity |-> similarity]
                       ELSE bestMatch
  /\ scanIdx' = scanIdx + 1
  /\ UNCHANGED <<targetLine, fileLines, startLine, endLine>>
  /\ UNCHANGED notSearch

SearchNext == SearchLine

(***************************************************************************)
(* analyzeCodeContent: the issue-to-comment mapper of the controller       *)
(***************************************************************************)
\* The range analyzeCodeContent passes to the search, and its threshold in tenths.
CallerRange == 50
ThresholdTenths == 5

\* `### ${icon} ${Category}`: the icon and the capitalised type.
IconOf(type) ==
  IF type = "quality" THEN "memo" ELSE IF type = "security" THEN "lock" ELSE "zap"

Capitalize(type) ==
  CASE type = "quality" -> "Quality"
    [] type = "security" -> "Security"
    [] type = "performance" -> "Performance"
    [] type = "style" -> "Style"
    [] OTHER -> "Other"

HeaderTok(type) == [t |-> "header", n |-> 0, icon |-> IconOf(type), cat |-> Capitalize(type)]
DescTok(d) == [t |-> "description", n |-> d, icon |-> "", cat |-> ""]
FooterTok == [t |-> "footer", n |-> 0, icon |-> "", cat |-> ""]

MapperBody(issue) == <<HeaderTok(issue.type), DescTok(issue.description), FooterTok>>

\* A raw issue of the LLM response. `fields` are the fields that are present
\* with the right type; a description is a number standing for its text (0: "").
Issue(line, code, type, description, fields) ==
  [line |-> line, code |-> code, type |-> type, description |-> description,
   fields |-> fields]

AllFields == {"line", "code", "type", "description"}

\* The line of an issue is not looked at.
IssueWellFormedLineOptional(issue) ==
  /\ "code" \in issue.fields /\ issue.code # <<>>
  /\ "type" \in issue.fields /\ issue.type # ""
  /\ "description" \in issue.fields /\ issue.description # 0

\* The negation of the `if (!issue.line || typeof issue.line !== 'number' || ...)`.
IssueWellFormed(issue) ==
  /\ "line" \in issue.fields /\ issue.line # 0
  /\ "code" \in issue.fields /\ issue.code # <<>>
  /\ "type" \in issue.fields /\ issue.type # ""
  /\ "description" \in issue.fields /\ issue.description # 0

\* The body of `for (const issue of analysis.issues)`: what is pushed to result.
MapIssue(filePath, texts, issue) ==
  IF ~IssueWellFormed(issue) THEN <<>>
  ELSE LET match == findMostSimilarLine(
                      issue.code, texts,
                      Max2(0, issue.line - CallerRange),
                      Min({Len(texts), issue.line + CallerRange}))
       IN IF SimAbove(match.similarity, ThresholdTenths) THEN <<>>
          ELSE IF match.lineNumber <= 0 \/ match.lineNumber > Len(texts) THEN <<>>
          ELSE <<Comment(filePath, match.lineNumber, MapperBody(issue))>>

RECURSIVE MapIssues(_, _, _)
MapIssues(filePath, texts, issues) ==
  IF issues = <<>> THEN <<>>
  ELSE MapIssue(filePath, texts, Head(issues))
         \o MapIssues(filePath, texts, Tail(issues))

\* An LLM exchange for one file: the request fails after its retries ("network"),
\* the status is not ok ("http"), the content is not JSON ("badjson"), the JSON
\* has no issues array ("noissues"), or it carries issues.
Response(kind, issues) == [kind |-> kind, issues |-> issues]

\* analyzeCodeContent(filePath, content): every failure returns [].
\* content.split('\n') is the file's sequence of lines.
analyzeCodeContent(filePath, texts, response) ==
  IF response.kind = "issues"
    THEN MapIssues(filePath, texts, response.issues)
    ELSE <<>>

\* The retries argument of the withRetry around the LLM request.
LLM_RETRIES == 5

\* A response that cannot be parsed is asked for again like a failed request.
FetchCallsRetryingParse(response) ==
  IF response.kind \in {"network", "badjson", "noissues"}
    THEN LLM_RETRIES + 1 ELSE 1

\* The requests one analyzeCodeContent call sends: only the fetch is inside
\* withRetry, so a request that keeps failing is sent retries + 1 times and
\* any response received ends the sending, whatever is made of it afterwards.
\* (The failures withRetry absorbs before a success are the subject of
\* SpecRetry; here a request that succeeds does so at its first attempt.)
FetchCalls(response) ==
  IF response.kind = "network" THEN LLM_RETRIES + 1 ELSE 1

(***************************************************************************)
(* GitHubAdapter.getChangedFiles and                                       *)
(* CodeReviewController.handlePullRequestEvent                             *)
(***************************************************************************)
\* Most issues in one LLM response, and a claimed line far past every file.
MaxIssues == 2
FarLine == 100

\* `file.filename.match(/\.(ts|tsx|js|jsx)$/)`
PathDoc == "README.md"
IsCodeFile(name) == name \in Paths

\* The files getChangedFiles returns: code files that are not removed; a file
\* whose content cannot be fetched is kept, with empty content, only if it has
\* a patch. A content is held as its lines, content.split('\n'): '' is ['']. `failed` is the set of filenames whose getFileContent fails.
RECURSIVE ChangedFiles(_, _)
ChangedFiles(listed, failed) ==
  IF listed = <<>> THEN <<>>
  ELSE LET f == Head(listed)
           rest == ChangedFiles(Tail(listed), failed)
       IN IF ~IsCodeFile(f.filename) \/ f.status = "removed" THEN rest
          ELSE IF f.filename \notin failed
                 THEN <<[path |-> f.filename, content |-> f.content,
                         hasPatch |-> f.hasPatch, patch |-> f.patch]>> \o rest
          ELSE IF f.hasPatch
                 THEN <<[path |-> f.filename, content |-> <<TextEmpty>>,
                         hasPatch |-> TRUE, patch |-> f.patch]>> \o rest
          ELSE rest

\* fileComments.filter(comment => changedLines.has(comment.line))
RECURSIVE InChangedLines(_, _)
InChangedLines(cs, changed) ==
  IF cs = <<>> THEN <<>>
  ELSE (IF Head(cs).line \in changed THEN <<Head(cs)>> ELSE <<>>)
         \o InChangedLines(Tail(cs), changed)

\* Comments of a file without a patch are left out.
FileContributionStrict(file, mapped) ==
  IF file.hasPatch
    THEN InChangedLines(mapped, parseDiffToChangedLines(file.patch))
    ELSE <<>>

\* `if (file.patch) {...filter...} else { allComments.push(...fileComments) }`:
\* the comments one file adds to allComments.
FileContribution(file, mapped) ==
  IF file.hasPatch
    THEN InChangedLines(mapped, parseDiffToChangedLines(file.patch))
    ELSE mapped

\* Pull requests: the two-line file of the example whose line 2 is added; a
\* new file of two lines plus a file without a patch; a file whose patch only
\* removes a line, a file that is not code and a removed file.
ExamplePullRequest ==
  <<SourceFile(PathA, TRUE, <<Hdr(1), Ctx, Add>>, "modified",
               <<TextX, TextEval, TextEmpty>>)>>

PullRequests ==
  { ExamplePullRequest,
    <<SourceFile(PathA, TRUE, <<Hdr(1), Add, Add>>, "added", <<TextX, TextEval>>),
      SourceFile(PathB, FALSE, <<>>, "modified", <<TextEval, TextX>>)>>,
    <<SourceFile(PathA, TRUE, <<Hdr(1), Ctx, Del>>, "modified", <<TextEval>>),
      SourceFile(PathDoc, TRUE, <<Hdr(1), Add>>, "modified", <<TextX>>),
      SourceFile(PathOther, TRUE, <<Hdr(1), Del>>, "removed", <<TextEmpty>>)>> }

\* What the LLM may report: the exact line of the example; the same code
\* re-indented and claimed one line off; a code one edit of two away; a code
\* found nowhere; a claimed line far past the end; an issue without its line;
\* an issue whose type is none of the three the prompt asks for.
Issues ==
  { Issue(2, TextEval, "security", 1, AllFields),
    Issue(1, TextEvalIndented, "quality", 2, AllFields),
    Issue(2, TextNear, "performance", 3, AllFields),
    Issue(1, TextUnknown, "security", 4, AllFields),
    Issue(FarLine, TextEval, "quality", 5, AllFields),
    Issue(1, TextEval, "security", 6, AllFields \ {"line"}),
    Issue(2, TextEval, "style", 7, AllFields) }

\* A response of three issues, the middle one without its line.
MixedIssues ==
  << Issue(2, TextNear, "performance", 3, AllFields),
     Issue(1, TextEval, "security", 6, AllFields \ {"line"}),
     Issue(2, TextEval, "security", 1, AllFields) >>

Responses ==
  {Response(k, <<>>) : k \in {"network", "http", "badjson", "noissues"}}
    \cup {Response("issues", is) : is \in SeqsUpTo(Issues, MaxIssues)}
    \cup {Response("issues", MixedIssues)}

PRIdle ==
  /\ ppc = "idle" /\ files = <<>> /\ fileIdx = 0 /\ allComments = <<>>
  /\ responses = <<>> /\ fileComments = <<>> /\ llmCalls = 0

\* handlePullRequestEvent starts on one of the pull requests.
PRInit ==
  /\ ppc = "start"
  /\ prFiles \in PullRequests
  /\ files = <<>> /\ fileIdx = 0 /\ allComments = <<>> /\ responses = <<>>
  /\ fileComments = <<>> /\ llmCalls = 0
  /\ cpc = "idle" /\ comments = <<>> /\ validated = <<>>
  /\ validateFailed = FALSE /\ batchSent = <<>> /\ batchStatus = 0
  /\ singles = <<>> /\ idx = 0
  /\ successCount = 0 /\ failCount = 0 /\ thrown = 0

\* `files = await this.platform.getChangedFiles(prId)` succeeds; the content of
\* any of the files may fail to load.
GetChangedFiles ==
  /\ ppc = "start"
  /\ \E failed \in SUBSET {prFiles[i].filename : i \in 1..Len(prFiles)} :
       files' = ChangedFiles(prFiles, failed)
  /\ ppc' = "analyze"
  /\ UNCHANGED <<fileIdx, allComments, responses, fileComments, llmCalls>>
  /\ UNCHANGED <<reviewVars, notFlow>>

\* pulls.listFiles fails after its retries: handlePullRequestEvent rejects.
GetChangedFilesFails ==
  /\ ppc = "start"
  /\ ppc' = "thrown"
  /\ UNCHANGED <<files, fileIdx, allComments, responses, fileComments, llmCalls>>
  /\ UNCHANGED <<reviewVars, notFlow>>

\* One iteration of `for (const file of files)`.
AnalyzeFile ==
  /\ ppc = "analyze"
  /\ fileIdx < Len(files)
  /\ \E response \in Responses :
       LET file == files[fileIdx + 1]
           mapped == analyzeCodeContent(file.path, file.content, response)
       IN /\ allComments' = allComments \o FileContribution(file, mapped)
          /\ responses' = Append(responses, response)
          /\ fileComments' = Append(fileComments, mapped)
          /\ llmCalls' = llmCalls + FetchCalls(response)
  /\ fileIdx' = fileIdx + 1
  /\ UNCHANGED <<ppc, files>>
  /\ UNCHANGED <<reviewVars, notFlow>>

\* `if (allComments.length > 0) await this.platform.createReview(prId, allComments)`
CallCreateReview ==
  /\ ppc = "analyze"
  /\ fileIdx = Len(files)
  /\ Len(allComments) > 0
  /\ ppc' = "review"
  /\ cpc' = "start"
  /\ comments' = allComments
  /\ UNCHANGED <<files, fileIdx, allComments, responses, fileComments, llmCalls>>
  /\ UNCHANGED <<prFiles, validated, validateFailed, batchSent, batchStatus,
                 singles, idx, successCount, failCount, thrown>>
  /\ UNCHANGED notFlow

\* The else branch: 'No issues found, no review created'.
NoReview ==
  /\ ppc = "analyze"
  /\ fileIdx = Len(files)
  /\ Len(allComments) = 0
  /\ ppc' = "done"
  /\ UNCHANGED <<files, fileIdx, allComments, responses, fileComments, llmCalls>>
  /\ UNCHANGED <<reviewVars, notFlow>>

\* createReview returned, or rejected: handlePullRequestEvent does the same.
ReviewReturns ==
  /\ ppc = "review"
  /\ cpc \in {"done", "thrown"}
  /\ ppc' = cpc
  /\ UNCHANGED <<files, fileIdx, allComments, responses, fileComments, llmCalls>>
  /\ UNCHANGED <<reviewVars, notFlow>>

PRNext ==
  \/ GetChangedFiles
  \/ GetChangedFilesFails
  \/ AnalyzeFile
  \/ CallCreateReview
  \/ NoReview
  \/ ReviewReturns

(***************************************************************************)
(* CodeReviewController.handleCommentEvent: recognizing a bot comment      *)
(***************************************************************************)
\* `c.body.match(/### (📝|🔒|⚡) (Quality|Security|Performance)/i)`: some header
\* of the body has one of the three icons and one of the three categories,
\* in any combination and in any letter case.
MatchesCategoryHeader(body) ==
  \E i \in 1..Len(body) :
    /\ body[i].t = "header"
    /\ body[i].icon \in {"memo", "lock", "zap"}
    /\ body[i].cat \in {"Quality", "Security", "Performance"}

(***************************************************************************)
(* The stand-alone pipeline: main with analyzeFile (analysis/analyzer.ts)  *)
(* and the GitHubAdapter of adapters/github.ts. It shares the variables of *)
(* the controller's flow; `allComments` is its `comments`.                 *)
(***************************************************************************)
\* The range analyzeFile passes to the search, and its threshold in tenths.
AnalyzerRange == 30
AnalyzerThresholdTenths == 3

\* The filter of analyzeFile: `typeof issue.line === 'number' && ...`.
IssueTyped(issue) == AllFields \subseteq issue.fields

\* The map of analyzeFile: null when the similarity is above the threshold.
MapTypedIssue(filename, texts, issue) ==
  LET match == findMostSimilarLine(
                 issue.code, texts,
                 Max2(0, issue.line - AnalyzerRange),
                 Min({Len(texts), issue.line + AnalyzerRange}))
  IN IF SimAbove(match.similarity, AnalyzerThresholdTenths) THEN <<>>
     ELSE <<Comment(filename, match.lineNumber, MapperBody(issue))>>

RECURSIVE MapTypedIssues(_, _, _)
MapTypedIssues(filename, texts, issues) ==
  IF issues = <<>> THEN <<>>
  ELSE (IF IssueTyped(Head(issues))
          THEN MapTypedIssue(filename, texts, Head(issues)) ELSE <<>>)
         \o MapTypedIssues(filename, texts, Tail(issues))

\* analyzeFile: analyzeCode throwing (request failed, status not ok, content
\* not JSON) is caught and gives []; so does a missing issues array.
analyzeFile(filename, texts, response) ==
  IF response.kind = "issues"
    THEN MapTypedIssues(filename, texts, response.issues)
    ELSE <<>>

\* The file is not looked at: no LLM exchange.
NoExchange == Response("none", <<>>)

\* main starts on one of the pull requests (the environment is complete and
\* the event is a pull request).
MainInit ==
  /\ ppc = "start"
  /\ prFiles \in PullRequests
  /\ files = <<>> /\ fileIdx = 0 /\ allComments = <<>> /\ responses = <<>>
  /\ fileComments = <<>> /\ llmCalls = 0
  /\ cpc = "idle" /\ comments = <<>> /\ validated = <<>>
  /\ validateFailed = FALSE /\ batchSent = <<>> /\ batchStatus = 0
  /\ singles = <<>> /\ idx = 0
  /\ successCount = 0 /\ failCount = 0 /\ thrown = 0

\* `files = await adapter.getChangedFiles(prInfo)`: every listed file.
MainGetChangedFiles ==
  /\ ppc = "start"
  /\ files' = prFiles
  /\ ppc' = "analyze"
  /\ UNCHANGED <<fileIdx, allComments, responses, fileComments, llmCalls>>
  /\ UNCHANGED <<reviewVars, notFlow>>

\* pulls.listFiles fails after its retries: main rejects.
MainGetChangedFilesFails ==
  /\ ppc = "start"
  /\ ppc' = "thrown"
  /\ UNCHANGED <<files, fileIdx, allComments, responses, fileComments, llmCalls>>
  /\ UNCHANGED <<reviewVars, notFlow>>

\* `if (!file.filename.match(/\.(ts|tsx|js|jsx)$/)) continue;`
MainSkipFile ==
  /\ ppc = "analyze"
  /\ fileIdx < Len(files)
  /\ ~IsCodeFile(files[fileIdx + 1].filename)
  /\ fileIdx' = fileIdx + 1
  /\ responses' = Append(responses, NoExchange)
  /\ fileComments' = Append(fileComments, <<>>)
  /\ UNCHANGED <<ppc, files, allComments, llmCalls>>
  /\ UNCHANGED <<reviewVars, notFlow>>

\* `await adapter.getFileContent(prInfo, file.filename)` rejects (the request
\* keeps failing, or the file has no content at the head commit): nothing
\* around it in the loop catches, so main rejects.
MainGetFileContentFails ==
  /\ ppc = "analyze"
  /\ fileIdx < Len(files)
  /\ IsCodeFile(files[fileIdx + 1].filename)
  /\ ppc' = "thrown"
  /\ UNCHANGED <<files, fileIdx, allComments, responses, fileComments, llmCalls>>
  /\ UNCHANGED <<reviewVars, notFlow>>

\* The content is fetched and analyzeFile returns; analyzeCode sends one
\* request, outside any withRetry.
MainAnalyzeFile ==
  /\ ppc = "analyze"
  /\ fileIdx < Len(files)
  /\ IsCodeFile(files[fileIdx + 1].filename)
  /\ files[fileIdx + 1].status # "removed"
  /\ \E response \in Responses :
       LET file == files[fileIdx + 1]
           mapped == analyzeFile(file.filename, file.content, response)
       IN /\ allComments' = allComments \o mapped
          /\ responses' = Append(responses, response)
          /\ fileComments' = Append(fileComments, mapped)
  /\ llmCalls' = llmCalls + 1
  /\ fileIdx' = fileIdx + 1
  /\ UNCHANGED <<ppc, files>>
  /\ UNCHANGED <<reviewVars, notFlow>>

\* `if (comments.length > 0) await adapter.createReview(prInfo, comments)`:
\* one wrapped pulls.createReview, accepted or failing with a status.
MainReviewAccepted ==
  /\ ppc = "analyze"
  /\ fileIdx = Len(files)
  /\ Len(allComments) > 0
  /\ batchSent' = Append(batchSent, allComments)
  /\ batchStatus' = 200
  /\ ppc' = "done"
  /\ UNCHANGED <<files, fileIdx, allComments, responses, fileComments, llmCalls>>
  /\ UNCHANGED <<cpc, prFiles, comments, validated, validateFailed, singles, idx,
                 successCount, failCount, thrown>>
  /\ UNCHANGED notFlow

MainReviewRejected ==
  /\ ppc = "analyze"
  /\ fileIdx = Len(files)
  /\ Len(allComments) > 0
  /\ batchSent' = Append(batchSent, allComments)
  /\ \E status \in BatchErrors :
       /\ batchStatus' = status
       /\ thrown' = status
  /\ ppc' = "thrown"
  /\ UNCHANGED <<files, fileIdx, allComments, responses, fileComments, llmCalls>>
  /\ UNCHANGED <<cpc, prFiles, comments, validated, validateFailed, singles, idx,
                 successCount, failCount>>
  /\ UNCHANGED notFlow

\* The else branch: 'No comments to create'.
MainNoComments ==
  /\ ppc = "analyze"
  /\ fileIdx = Len(files)
  /\ Len(allComments) = 0
  /\ ppc' = "done"
  /\ UNCHANGED <<files, fileIdx, allComments, responses, fileComments, llmCalls>>
  /\ UNCHANGED <<reviewVars, notFlow>>

MainNext ==
  \/ MainGetChangedFiles
  \/ MainGetChangedFilesFails
  \/ MainSkipFile
  \/ MainGetFileContentFails
  \/ MainAnalyzeFile
  \/ MainReviewAccepted
  \/ MainReviewRejected
  \/ MainNoComments

(***************************************************************************)
(* main: the entry point, with createControllerFromEnv and processEvent    *)
(***************************************************************************)
EntryIdle ==
  /\ epc = "idle" /\ env = <<>> /\ exitCode = -1 /\ netCalls = 0

\* The environment main reads. A variable that is unset or empty is FALSE
\* (or ""); GITHUB_REPOSITORY is "absent", "valid" (owner/repo) or "invalid".
\* noteIds stands for GITLAB_DISCUSSION_ID and GITLAB_NOTE_ID both being set.
Environments ==
  [ deepseekKey : BOOLEAN,
    githubToken : BOOLEAN,
    githubRepo : {"absent", "valid", "invalid"},
    gitlabToken : BOOLEAN,
    gitlabProject : BOOLEAN,
    githubEvent : {"", "pull_request", "pull_request_review_comment", "push"},
    gitlabEvent : {"", "merge_request", "note", "pipeline"},
    prNumber : BOOLEAN,
    commentId : BOOLEAN,
    mrIid : BOOLEAN,
    noteIds : BOOLEAN ]

EntryInit ==
  /\ epc = "start"
  /\ env \in Environments
  /\ exitCode = -1
  /\ netCalls = 0

\* createControllerFromEnv and the adapter's constructor: "github", "gitlab",
\* or "throws" (no LLM key, no complete platform configuration, or a
\* repository that is not owner/repo).
ControllerFromEnv(e) ==
  IF ~e.deepseekKey THEN "throws"
  ELSE IF e.githubToken /\ e.githubRepo # "absent"
         THEN IF e.githubRepo = "valid" THEN "github" ELSE "throws"
  ELSE IF e.gitlabToken /\ e.gitlabProject THEN "gitlab"
  ELSE "throws"

\* `process.env.GITHUB_EVENT_NAME || process.env.GITLAB_EVENT_TYPE`
EventType(e) == IF e.githubEvent # "" THEN e.githubEvent ELSE e.gitlabEvent

\* The two switch statements of main: "data" when eventData is built,
\* "throws" when the identifier the event needs is missing, "ignored" for
\* the default branches (`console.log('Ignoring event type'); return;`).
EventData(e) ==
  IF e.githubEvent # ""
    THEN CASE EventType(e) = "pull_request" ->
                IF e.prNumber THEN "data" ELSE "throws"
           [] EventType(e) = "pull_request_review_comment" ->
                IF e.commentId THEN "data" ELSE "throws"
           [] OTHER -> "ignored"
    ELSE CASE EventType(e) = "merge_request" ->
                IF e.mrIid THEN "data" ELSE "throws"
           [] EventType(e) = "note" ->
                IF e.mrIid /\ e.noteIds THEN "data" ELSE "throws"
           [] OTHER -> "ignored"

\* The switch of processEvent: the handler an event type is given to.
HandlerOf(eventType) ==
  CASE eventType \in {"pull_request", "merge_request"} -> "pullRequest"
    [] eventType \in {"pull_request_review_comment", "note"} -> "comment"
    [] OTHER -> "none"

\* The catch block of main: `process.exit(1)`.
ExitFailure == 1
\* main returns and the process ends by itself.
ExitNormal == 0

\* `const controller = createControllerFromEnv()`
CreateController ==
  /\ epc = "start"
  /\ IF ControllerFromEnv(env) = "throws"
       THEN epc' = "exited" /\ exitCode' = ExitFailure
       ELSE epc' = "event" /\ exitCode' = exitCode
  /\ UNCHANGED <<env, netCalls>>
  /\ UNCHANGED notEntry

\* `if (!eventType) throw new Error('Missing event type...')`
ReadEventType ==
  /\ epc = "event"
  /\ IF EventType(env) = ""
       THEN epc' = "exited" /\ exitCode' = ExitFailure
       ELSE epc' = "data" /\ exitCode' = exitCode
  /\ UNCHANGED <<env, netCalls>>
  /\ UNCHANGED notEntry

\* The switch on the event type that builds eventData.
BuildEventData ==
  /\ epc = "data"
  /\ CASE EventData(env) = "data" -> epc' = "dispatch" /\ exitCode' = exitCode
       [] EventData(env) = "throws" -> epc' = "exited" /\ exitCode' = ExitFailure
       [] OTHER -> epc' = "exited" /\ exitCode' = ExitNormal
  /\ UNCHANGED <<env, netCalls>>
  /\ UNCHANGED notEntry

\* `await controller.processEvent(eventType, eventData)`: the handler starts
\* and issues its first request (the file listing, or the comment fetch).
ProcessEvent ==
  /\ epc = "dispatch"
  /\ IF HandlerOf(EventType(env)) = "none"
       THEN epc' = "exited" /\ exitCode' = ExitNormal /\ netCalls' = netCalls
       ELSE epc' = "handling" /\ exitCode' = exitCode /\ netCalls' = netCalls + 1
  /\ UNCHANGED env
  /\ UNCHANGED notEntry

\* The handler resolves: main returns.
HandlerReturns ==
  /\ epc = "handling"
  /\ epc' = "exited"
  /\ exitCode' = ExitNormal
  /\ UNCHANGED <<env, netCalls>>
  /\ UNCHANGED notEntry

\* handlePullRequestEvent rejects, processEvent rethrows and main exits with 1;
\* handleCommentEvent catches every error of its own.
HandlerRejects ==
  /\ epc = "handling"
  /\ HandlerOf(EventType(env)) = "pullRequest"
  /\ epc' = "exited"
  /\ exitCode' = ExitFailure
  /\ UNCHANGED <<env, netCalls>>
  /\ UNCHANGED notEntry

EntryNext ==
  \/ CreateController
  \/ ReadEventType
  \/ BuildEventData
  \/ ProcessEvent
  \/ HandlerReturns
  \/ HandlerRejects

(***************************************************************************)
(* Specifications                                                          *)
(***************************************************************************)
(***************************************************************************)
(* levenshteinDistance called on its own                                   *)
(***************************************************************************)
\* Longest string drawn, over an alphabet of two characters.
MaxStrLen == 3
Alphabet == {"a", "b"}

Strings == SeqsUpTo(Alphabet, MaxStrLen)

Kitten == <<"k", "i", "t", "t", "e", "n">>
Sitting == <<"s", "i", "t", "t", "i", "n", "g">>

LevIdle == strA = <<>> /\ strB = <<>> /\ distance = -1

\* levenshteinDistance(a, b) is called with any two strings, or with the
\* pair "kitten", "sitting" in either order.
LevInit ==
  /\ \/ strA \in Strings /\ strB \in Strings
     \/ strA = Kitten /\ strB = Sitting
     \/ strA = Sitting /\ strB = Kitten
  /\ distance = -1

\* `return matrix[b.length][a.length]`
LevReturns ==
  /\ distance = -1
  /\ distance' = levenshteinDistance(strA, strB)
  /\ UNCHANGED <<strA, strB>>
  /\ UNCHANGED notLev

LevNext == LevReturns

(***************************************************************************)
(* fetchFromDeepSeekAPI(payload, endpoint, retries, initialDelay)          *)
(***************************************************************************)
\* Largest retries argument tried (the default is 3), and the delays tried.
MaxFetchRetries == 3
InitialDelays == {1, 1000}

\* What one request ends with: the status of the response, or "network" when
\* fetch rejects or the text of an error response cannot be read, both of
\* which land in the catch block.
NetworkError == 0
RequestOutcomes == {200, 400, 429, 500, NetworkError}

\* A client error is repeated like a server error.
RetryableStatusAnyError(status) == status # 200

\* `response.status === 429 || response.status >= 500`
RetryableStatus(status) == status = 429 \/ status >= 500

FetchIdle ==
  /\ fpc = "idle" /\ fetchRetries = 0 /\ initialDelay = 0 /\ attempt = 0
  /\ delay = 0 /\ requests = <<>> /\ waits = <<>> /\ fetchResult = 0

\* `let attempt = 0; let delay = initialDelay;`
FetchInit ==
  /\ fpc = "loop"
  /\ fetchRetries \in 0..MaxFetchRetries
  /\ initialDelay \in InitialDelays
  /\ attempt = 0
  /\ delay = initialDelay
  /\ requests = <<>>
  /\ waits = <<>>
  /\ fetchResult = 0

\* One request of the while loop that ends with a response: returned when it
\* is ok or its status is not one to repeat, else counted and waited for.
RequestAnswered ==
  /\ fpc = "loop"
  /\ attempt < fetchRetries
  /\ \E status \in RequestOutcomes \ {NetworkError} :
       /\ requests' = Append(requests, status)
       /\ IF status # 200 /\ RetryableStatus(status)
            THEN /\ attempt' = attempt + 1
                 /\ fpc' = "wait"
                 /\ fetchResult' = fetchResult
            ELSE /\ attempt' = attempt
                 /\ fpc' = "returned"
                 /\ fetchResult' = status
  /\ UNCHANGED <<fetchRetries, initialDelay, delay, waits>>
  /\ UNCHANGED notFetch

\* One request that ends in the catch block: counted, and repeated after a
\* wait while attempts are left, else the error is rethrown.
RequestFails ==
  /\ fpc = "loop"
  /\ attempt < fetchRetries
  /\ requests' = Append(requests, NetworkError)
  /\ attempt' = attempt + 1
  /\ fpc' = IF attempt' < fetchRetries THEN "wait" ELSE "thrown"
  /\ UNCHANGED <<fetchRetries, initialDelay, delay, waits, fetchResult>>
  /\ UNCHANGED notFetch

\* `await new Promise(resolve => setTimeout(resolve, delay)); delay *= 2;
\* continue;`
WaitThenContinue ==
  /\ fpc = "wait"
  /\ waits' = Append(waits, delay)
  /\ delay' = delay * 2
  /\ fpc' = "loop"
  /\ UNCHANGED <<fetchRetries, initialDelay, attempt, requests, fetchResult>>
  /\ UNCHANGED notFetch

\* The loop condition fails: `throw new Error('Failed to reach ...')`.
AttemptsExhausted ==
  /\ fpc = "loop"
  /\ attempt >= fetchRetries
  /\ fpc' = "thrown"
  /\ UNCHANGED <<fetchRetries, initialDelay, attempt, delay, requests, waits,
                 fetchResult>>
  /\ UNCHANGED notFetch

FetchNext ==
  \/ RequestAnswered
  \/ RequestFails
  \/ WaitThenContinue
  \/ AttemptsExhausted

(***************************************************************************)
(* CodeReviewController.handleCommentEvent                                 *)
(*                                                                         *)
(* A body written by a person is a sequence of words and runs of           *)
(* whitespace; the bodies the program writes are the token sequences of    *)
(* the mapper, of the relocation note and of the reply.                    *)
(***************************************************************************)
\* Longest thread at the start, and the most comments a thread may grow to.
MaxThreadLen == 3
MaxThreadGrowth == 3

Word(w) == [t |-> "word", n |-> 0, w |-> w]
Space == [t |-> "space", n |-> 0, w |-> " "]

\* The letter case folding of the `i` flag, on the words used.
Lower(w) ==
  CASE w = "@AI" -> "@ai"
    [] w = "/Ai" -> "/ai"
    [] OTHER -> w

\* The mention is looked for anywhere in the body.
MentionAnywhere(body) ==
  \E i \in 1..(Len(body) - 1) :
    /\ body[i].t = "word" /\ Lower(body[i].w) \in {"@ai", "/ai"}
    /\ body[i + 1].t = "space"

\* `comment.body.match(/^(@ai|\/ai)\s/i)`
MentionAtStart(body) ==
  /\ Len(body) >= 2
  /\ body[1].t = "word" /\ Lower(body[1].w) \in {"@ai", "/ai"}
  /\ body[2].t = "space"

\* `comment.body.replace(/^(@ai|\/ai)\s+/i, '')`: a run of whitespace is one
\* token, so the mention and the token after it go.
QuestionOf(body) ==
  IF MentionAtStart(body) THEN SubSeq(body, 3, Len(body)) ELSE body

\* The reply is the question and the answer, nothing in front.
ReplyBodyUnquoted(question) ==
  question \o <<Tok("answer", 0), Tok("tip", 0)>>

\* `> ${question}\n\n${answer}\n\n*...*`
ReplyBody(question) ==
  <<Tok("quote", 0)>> \o question \o <<Tok("answer", 0), Tok("tip", 0)>>

ThreadComment(id, path, line, body) ==
  [id |-> id, path |-> path, line |-> line, body |-> body]

\* `allComments.reverse().find(c => c.id !== comment.id && c.path ===
\* comment.path && c.line === comment.line && c.body.match(...))`: the last
\* comment of the list that passes, 0 for undefined.
FindParent(all, c) ==
  LET matching == {i \in 1..Len(all) :
                     /\ all[i].id # c.id
                     /\ all[i].path = c.path
                     /\ all[i].line = c.line
                     /\ MatchesCategoryHeader(all[i].body)}
  IN IF matching = {} THEN 0
     ELSE all[CHOOSE i \in matching : \A j \in matching : j <= i].id

\* Bodies people write: addressed to the bot in several spellings, with the
\* mention twice, and not addressed (no mention, the mention not at the
\* start, the mention with nothing after it, a longer word).
PersonBodies ==
  { <<Word("@ai"), Space, Word("why")>>,
    <<Word("/Ai"), Space, Word("why")>>,
    <<Word("@AI"), Space, Word("@ai"), Space, Word("why")>>,
    <<Word("why")>>,
    <<Word("why"), Space, Word("@ai"), Space, Word("now")>>,
    <<Word("@ai")>>,
    <<Word("@aid"), Space, Word("why")>> }

\* Bodies the program writes before any reply: a mapped issue, as it is or
\* relocated by the validator.
ReviewBodies ==
  { MapperBody(Issue(1, TextEval, "security", 1, {})),
    <<NoteFor(2)>> \o MapperBody(Issue(1, TextEval, "quality", 1, {})) }

ThreadLines == {1, 2}

\* Threads: the comments of one file, with ids in the order of creation.
Threads ==
  { [i \in 1..Len(s) |-> ThreadComment(i, PathA, s[i][1], s[i][2])] :
      s \in SeqsUpTo(ThreadLines \X (PersonBodies \cup ReviewBodies),
                     MaxThreadLen) \ {<<>>} }

CommentIdle ==
  /\ hpc = "idle" /\ thread = <<>> /\ inbound = 0 /\ listedComments = <<>>
  /\ parent = 0 /\ replyRequests = 0 /\ replies = 0 /\ pending = {}

\* A comment event arrives for any comment of the thread; comments may have
\* been added after it by the time the handler runs.
CommentInit ==
  /\ hpc = "start"
  /\ thread \in Threads
  /\ inbound \in 1..Len(thread)
  /\ listedComments = <<>>
  /\ parent = 0
  /\ replyRequests = 0
  /\ replies = 0
  /\ pending = {}

\* getComment rejects (a request fails, or the comment lacks a field): the
\* catch block logs and the handler returns.
GetCommentFails ==
  /\ hpc = "start"
  /\ hpc' = "done"
  /\ UNCHANGED <<thread, inbound, listedComments, parent, replyRequests, replies,
                 pending>>
  /\ UNCHANGED notComment

\* getComment, then the mention check: `return` when the body is not
\* addressed to the bot.
GetComment ==
  /\ hpc = "start"
  /\ hpc' = IF MentionAtStart(thread[inbound].body) THEN "list" ELSE "done"
  /\ UNCHANGED <<thread, inbound, listedComments, parent, replyRequests, replies,
                 pending>>
  /\ UNCHANGED notComment

\* listComments returns the thread, or rejects.
ListComments ==
  /\ hpc = "list"
  /\ \/ listedComments' = thread /\ hpc' = "find"
     \/ listedComments' = listedComments /\ hpc' = "done"
  /\ UNCHANGED <<thread, inbound, parent, replyRequests, replies, pending>>
  /\ UNCHANGED notComment

\* The search for parentComment, and the return when there is none.
FindParentComment ==
  /\ hpc = "find"
  /\ parent' = FindParent(listedComments, thread[inbound])
  /\ hpc' = IF parent' = 0 THEN "done" ELSE "content"
  /\ UNCHANGED <<thread, inbound, listedComments, replyRequests, replies, pending>>
  /\ UNCHANGED notComment

\* getFileContent returns, or rejects.
GetFileContent ==
  /\ hpc = "content"
  /\ \E ok \in BOOLEAN : hpc' = IF ok THEN "generate" ELSE "done"
  /\ UNCHANGED <<thread, inbound, listedComments, parent, replyRequests, replies,
                 pending>>
  /\ UNCHANGED notComment

\* generateReplyForComment: the request goes out once, or once more for each
\* retry when it keeps failing; an answer or an apology comes back.
GenerateReply ==
  /\ hpc = "generate"
  /\ \E sent \in {1, LLM_RETRIES + 1} : replyRequests' = replyRequests + sent
  /\ hpc' = "reply"
  /\ UNCHANGED <<thread, inbound, listedComments, parent, replies, pending>>
  /\ UNCHANGED notComment

\* replyToComment: the reply becomes a comment of the thread, on the path and
\* line of the comment it answers, and the forge raises a comment event for
\* it; or the call rejects.
ReplyToComment ==
  /\ hpc = "reply"
  /\ Len(thread) < MaxThreadLen + MaxThreadGrowth
  /\ \/ /\ thread' = Append(thread,
                       ThreadComment(Len(thread) + 1, thread[inbound].path,
                                     thread[inbound].line,
                                     ReplyBody(QuestionOf(thread[inbound].body))))
        /\ replies' = replies + 1
        /\ pending' = pending \cup {Len(thread) + 1}
     \/ UNCHANGED <<thread, replies, pending>>
  /\ hpc' = "done"
  /\ UNCHANGED <<inbound, listedComments, parent, replyRequests>>
  /\ UNCHANGED notComment

\* The next comment event is handled, by a new run of the handler.
NextCommentEvent ==
  /\ hpc = "done"
  /\ \E id \in pending :
       /\ inbound' = id
       /\ pending' = pending \ {id}
  /\ hpc' = "start"
  /\ listedComments' = <<>>
  /\ parent' = 0
  /\ UNCHANGED <<thread, replyRequests, replies>>
  /\ UNCHANGED notComment

CommentNext ==
  \/ GetCommentFails
  \/ GetComment
  \/ ListComments
  \/ FindParentComment
  \/ GetFileContent
  \/ GenerateReply
  \/ ReplyToComment
  \/ NextCommentEvent

(***************************************************************************)
(* commentOnPR: the per-file analyses run concurrently under Promise.all   *)
(***************************************************************************)
\* Most comments one analysis resolves with.
MaxFileComments == 2

\* `file.filename.match(/\.(ts|tsx|js|jsx)$/)`
MatchesCodeExtension(name) == name \in Paths

\* files.filter(...): the positions of the listing that are analyzed, in order.
RECURSIVE AnalyzedPositions(_, _)
AnalyzedPositions(listed, n) ==
  IF n = 0 THEN <<>>
  ELSE AnalyzedPositions(listed, n - 1)
         \o (IF MatchesCodeExtension(listed[n].filename) THEN <<n>> ELSE <<>>)

\* The value of an analysis that has not resolved yet.
Pending == <<"pending">>

\* Promise.all stores each value in the next free slot as it arrives.
ResultSlotByArrival(i, done) == Len(done) + 1

\* Promise.all stores the value of the i-th promise at index i, whenever it
\* resolves.
ResultSlot(i, done) == i

\* allComments.flat()
RECURSIVE Flat(_)
Flat(arrays) ==
  IF arrays = <<>> THEN <<>> ELSE Head(arrays) \o Flat(Tail(arrays))

\* The filter of commentOnPR: the comment's file is listed (the first entry
\* of that name), has a patch, and the inline diff parse, which is the text
\* of parseDiffToChangedLines, has the comment's line.
OnChangedLine(listed, c) ==
  /\ \E i \in 1..Len(listed) : listed[i].filename = c.path
  /\ LET first == Min({i \in 1..Len(listed) : listed[i].filename = c.path})
     IN /\ listed[first].hasPatch
        /\ c.line \in parseDiffToChangedLines(listed[first].patch)

RECURSIVE KeepOnChangedLines(_, _)
KeepOnChangedLines(listed, cs) ==
  IF cs = <<>> THEN <<>>
  ELSE (IF OnChangedLine(listed, Head(cs)) THEN <<Head(cs)>> ELSE <<>>)
         \o KeepOnChangedLines(listed, Tail(cs))

\* The pull request: two files with added lines 1 and 2 (recorded as 0 and
\* 1), a document that is not analyzed, and a file without a patch.
MergeListing ==
  << SourceFile(PathA, TRUE, <<Hdr(1), Add, Add>>, "modified", <<<<>>>>),
     SourceFile(PathDoc, TRUE, <<Hdr(1), Add>>, "modified", <<<<>>>>),
     SourceFile(PathB, TRUE, <<Hdr(1), Add, Add>>, "added", <<<<>>>>),
     SourceFile(PathOther, FALSE, <<>>, "modified", <<<<>>>>) >>

\* What analyzeFile may resolve with for a file: comments on that file, two
\* of them on lines the diff parse records and one on a line it does not.
AnalysisOutputs(name) ==
  SeqsUpTo({Comment(name, 0, <<DescTok(1)>>), Comment(name, 1, <<DescTok(2)>>),
            Comment(name, 2, <<DescTok(3)>>)},
           MaxFileComments)

MergeIdle ==
  /\ mpc = "idle" /\ listing = <<>> /\ analyses = <<>> /\ settled = <<>>
  /\ results = <<>> /\ handed = <<>>

\* commentOnPR has listed the files; each analysis has its own outcome.
MergeInit ==
  /\ mpc = "start"
  /\ listing = MergeListing
  /\ LET analyzed == AnalyzedPositions(MergeListing, Len(MergeListing))
     IN /\ analyses \in [1..Len(analyzed) -> UNION {AnalysisOutputs(p) : p \in Paths}]
        /\ \A i \in 1..Len(analyzed) :
             analyses[i] \in AnalysisOutputs(MergeListing[analyzed[i]].filename)
  /\ settled = <<>>
  /\ results = <<>>
  /\ handed = <<>>

\* `.map(file => analyzeFile(file, prInfo))` starts every analysis;
\* Promise.all waits for them.
StartAnalyses ==
  /\ mpc = "start"
  /\ results' = [i \in 1..Len(analyses) |-> Pending]
  /\ mpc' = "analyzing"
  /\ UNCHANGED <<listing, analyses, settled, handed>>
  /\ UNCHANGED notMerge

\* One analysis resolves, whichever is ready first (analyzeFile catches every
\* error and resolves with [] then).
AnalysisResolves ==
  /\ mpc = "analyzing"
  /\ \E i \in 1..Len(analyses) :
       /\ \A k \in 1..Len(settled) : settled[k] # i
       /\ results' = [results EXCEPT ![ResultSlot(i, settled)] = analyses[i]]
       /\ settled' = Append(settled, i)
  /\ UNCHANGED <<mpc, listing, analyses, handed>>
  /\ UNCHANGED notMerge

\* Every analysis has resolved: Promise.all resolves with the array.
AllResolved ==
  /\ mpc = "analyzing"
  /\ Len(settled) = Len(analyses)
  /\ mpc' = "filter"
  /\ UNCHANGED <<listing, analyses, settled, results, handed>>
  /\ UNCHANGED notMerge

\* `allComments.flat().filter(...)`, the return when nothing is left, and
\* the createReview call with validComments otherwise.
FilterAndReview ==
  /\ mpc = "filter"
  /\ LET validComments == KeepOnChangedLines(listing, Flat(results))
     IN handed' = IF Len(validComments) = 0 THEN handed
                  ELSE Append(handed, validComments)
  /\ mpc' = "done"
  /\ UNCHANGED <<listing, analyses, settled, results>>
  /\ UNCHANGED notMerge

MergeNext ==
  \/ StartAnalyses
  \/ AnalysisResolves
  \/ AllResolved
  \/ FilterAndReview

(***************************************************************************)
(* The two mappers on one issue of a long file                             *)
(***************************************************************************)
\* The number of lines of the longer file, and the lines the LLM may claim:
\* some of them far beyond the end of the file.
MapperFileLen == 20
ClaimedLines == {1, 10, 20, 50, 60, 61, 79, 80, 81, 99, 100, 101}

\* Files mapped: the eval line first or last among filler lines, and a file
\* of one line.
MapperFiles ==
  { <<TextEval>> \o [i \in 1..(MapperFileLen - 1) |-> TextX],
    [i \in 1..(MapperFileLen - 1) |-> TextX] \o <<TextEval>>,
    <<TextEval>> }

MapperIssues ==
  {Issue(l, code, "security", 1, AllFields) :
     l \in ClaimedLines, code \in {TextEval, TextNear, TextUnknown}}

MapperIdle ==
  /\ mapTexts = <<>> /\ mapIssue = Issue(0, <<>>, "", 0, {})
  /\ mapVariant = "none" /\ mapOutput = <<>>

MapperInit ==
  /\ mapTexts \in MapperFiles
  /\ mapIssue \in MapperIssues
  /\ mapVariant = "none"
  /\ mapOutput = <<>>

\* The loop body of analyzeCodeContent on the issue.
MapByAnalyzeCodeContent ==
  /\ mapVariant = "none"
  /\ mapVariant' = "analyzeCodeContent"
  /\ mapOutput' = MapIssue(PathA, mapTexts, mapIssue)
  /\ UNCHANGED <<mapTexts, mapIssue>>
  /\ UNCHANGED notMapper

\* The filter and map of analyzeFile on the issue.
MapByAnalyzeFile ==
  /\ mapVariant = "none"
  /\ mapVariant' = "analyzeFile"
  /\ mapOutput' = IF IssueTyped(mapIssue)
                    THEN MapTypedIssue(PathA, mapTexts, mapIssue) ELSE <<>>
  /\ UNCHANGED <<mapTexts, mapIssue>>
  /\ UNCHANGED notMapper

MapperNext == MapByAnalyzeCodeContent \/ MapByAnalyzeFile

InitMapper ==
  MapperInit /\ RetryIdle /\ DiffIdle /\ ReviewIdle /\ PRIdle /\ SearchIdle /\ EntryIdle /\ LevIdle /\ FetchIdle /\ CommentIdle /\ MergeIdle
SpecMapper == InitMapper /\ [][MapperNext]_vars

InitMerge ==
  MergeInit /\ RetryIdle /\ DiffIdle /\ ReviewIdle /\ PRIdle /\ SearchIdle /\ EntryIdle /\ LevIdle /\ FetchIdle /\ CommentIdle /\ MapperIdle
SpecMerge == InitMerge /\ [][MergeNext]_vars

InitComment ==
  CommentInit /\ RetryIdle /\ DiffIdle /\ ReviewIdle /\ PRIdle /\ SearchIdle /\ EntryIdle /\ LevIdle /\ FetchIdle /\ MergeIdle /\ MapperIdle
SpecComment == InitComment /\ [][CommentNext]_vars

\* Timers fire and requests end, so a call in progress takes its next step.
InitFetch ==
  FetchInit /\ RetryIdle /\ DiffIdle /\ ReviewIdle /\ PRIdle /\ SearchIdle /\ EntryIdle /\ LevIdle /\ CommentIdle /\ MergeIdle /\ MapperIdle
SpecFetch == InitFetch /\ [][FetchNext]_vars /\ WF_vars(FetchNext)

InitLev ==
  LevInit /\ RetryIdle /\ DiffIdle /\ ReviewIdle /\ PRIdle /\ SearchIdle /\ EntryIdle /\ FetchIdle /\ CommentIdle /\ MergeIdle /\ MapperIdle
SpecLev == InitLev /\ [][LevNext]_vars

InitRetry ==
  RetryInit /\ DiffIdle /\ ReviewIdle /\ PRIdle /\ SearchIdle /\ EntryIdle /\ LevIdle /\ FetchIdle /\ CommentIdle /\ MergeIdle /\ MapperIdle
SpecRetry == InitRetry /\ [][RetryNext]_vars

InitDiff ==
  DiffInit /\ RetryIdle /\ ReviewIdle /\ PRIdle /\ SearchIdle /\ EntryIdle /\ LevIdle /\ FetchIdle /\ CommentIdle /\ MergeIdle /\ MapperIdle

InitSearch ==
  SearchInit /\ RetryIdle /\ DiffIdle /\ ReviewIdle /\ PRIdle /\ EntryIdle /\ LevIdle /\ FetchIdle /\ CommentIdle /\ MergeIdle /\ MapperIdle
SpecSearch == InitSearch /\ [][SearchNext]_vars
SpecDiff == InitDiff /\ [][DiffNext]_vars

InitMain == MainInit /\ RetryIdle /\ DiffIdle /\ SearchIdle /\ EntryIdle /\ LevIdle /\ FetchIdle /\ CommentIdle /\ MergeIdle /\ MapperIdle
SpecMain == InitMain /\ [][MainNext]_vars

InitEntry ==
  EntryInit /\ RetryIdle /\ DiffIdle /\ ReviewIdle /\ PRIdle /\ SearchIdle /\ LevIdle /\ FetchIdle /\ CommentIdle /\ MergeIdle /\ MapperIdle
SpecEntry == InitEntry /\ [][EntryNext]_vars

\* A run is a call of handlePullRequestEvent, or a call of createReview alone.
Init ==
  /\ RetryIdle /\ DiffIdle /\ SearchIdle /\ EntryIdle /\ LevIdle /\ FetchIdle /\ CommentIdle /\ MergeIdle /\ MapperIdle
  /\ \/ PRInit
     \/ ReviewInit /\ PRIdle
Next == PRNext \/ ReviewNext
Spec == Init /\ [][Next]_vars

(***************************************************************************)
(* Properties                                                              *)
(***************************************************************************)
RECURSIVE Flatten(_)
Flatten(lists) ==
  IF lists = <<>> THEN <<>> ELSE Head(lists) \o Flatten(Tail(lists))

Range(s) == {s[i] : i \in 1..Len(s)}

\* Every comment handed to the forge, in a batch or individually.
Submitted == Range(Flatten(batchSent)) \cup Range(singles)

\* The files of the pull request that have a patch.
PatchedPaths ==
  {prFiles[i].filename : i \in {j \in 1..Len(prFiles) : prFiles[j].hasPatch}}

\* C1: every comment createReview hands to the forge, in the batch or
\* individually, whose path is a changed file with a patch has its line in the
\* changed-line set parsed from that patch.
SubmittedLinesInDiff ==
  \A c \in Submitted :
    c.path \in PatchedPaths => c.line \in ChangedLinesOf(prFiles, c.path)

\* The destination-file line of diff line i of a patch whose first line is a
\* well-formed header and which has no malformed header: the new-start of the
\* hunk it lies in plus the number of added and context lines before it there.
WellFormedPatch(p) ==
  /\ p # <<>>
  /\ p[1].k = "hdr"
  /\ \A i \in 1..Len(p) : p[i].k # "bad"

HunkHeaderOf(p, i) ==
  CHOOSE h \in 1..i : p[h].k = "hdr" /\ \A j \in (h + 1)..i : p[j].k # "hdr"

DestinationLine(p, i) ==
  LET h == HunkHeaderOf(p, i)
  IN p[h].c + Cardinality({j \in (h + 1)..(i - 1) : p[j].k \in {"add", "ctx"}})

AddedDestinationLines(p) ==
  {DestinationLine(p, i) : i \in {j \in 1..Len(p) : p[j].k = "add"}}

\* C2: once a patch built from hunks of added, removed and context lines is
\* scanned, the set returned is exactly the set of destination-file line
\* numbers of its added lines ({2} for the patch of the example).
DiffAddedLinesExact ==
  (pos = Len(patch) /\ WellFormedPatch(patch)) =>
    /\ changedLines = AddedDestinationLines(patch)
    /\ patch = ExamplePatch => changedLines = {2}

\* The run is the scenario of C3 at line L: one changed file, loaded, whose
\* diff marks L as added, and one LLM issue claiming L and quoting line L.
EndToEndScenario(L) ==
  /\ Len(prFiles) = 1
  /\ Len(files) = 1
  /\ files[1].content = prFiles[1].content
  /\ prFiles[1].hasPatch
  /\ WellFormedPatch(prFiles[1].patch)
  /\ L \in AddedDestinationLines(prFiles[1].patch)
  /\ L \in 1..Len(files[1].content)
  /\ Len(responses) = 1
  /\ responses[1].kind = "issues"
  /\ Len(responses[1].issues) = 1
  /\ IssueWellFormed(responses[1].issues[1])
  /\ responses[1].issues[1].line = L
  /\ responses[1].issues[1].code = files[1].content[L]

\* C3: when the pull-request flow has run on one changed file whose diff marks
\* line L as added, with a single LLM issue at L quoting line L, exactly one
\* review comment was submitted, at line L, its body starting with the
\* category header of the issue's type.
EndToEndOneComment ==
  \A L \in 1..MaxLine :
    (ppc = "done" /\ EndToEndScenario(L)) =>
      /\ Len(batchSent) >= 1
      /\ Len(batchSent[1]) = 1
      /\ batchSent[1][1].line = L
      /\ batchSent[1][1].body[1] = HeaderTok(responses[1].issues[1].type)

\* The smallest distance from a line to a changed line.
MinDistance(changed, line) == Min({Abs(x - line) : x \in changed})

\* The outputs of validateComments that stem from input comment c: on its
\* path, either c itself or a comment noted as moved from c's line.
OutputsOf(c) ==
  {i \in 1..Len(validated) :
     /\ validated[i].path = c.path
     /\ \/ validated[i] = c
        \/ validated[i].body = <<NoteFor(c.line)>> \o c.body}

\* C4: after validateComments has run (both fetches succeeding), each input
\* comment on a file with a patch whose line is not a changed line is, when
\* the smallest distance d to a changed line is at most 5, output moved to a
\* changed line at distance d with the note in front of its body, and is
\* dropped when d > 5 or the file has no changed line.
SnapWithinFiveOrDrop ==
  (cpc \notin {"idle", "start"} /\ ~validateFailed) =>
    \A k \in 1..Len(comments) :
      LET c == comments[k]
          changed == ChangedLinesOf(prFiles, c.path)
      IN (c.path \in PatchedPaths /\ c.line \notin ChangedLinesOf(prFiles, c.path)) =>
           IF changed # {} /\ MinDistance(changed, c.line) <= SnapDistance
             THEN \E i \in OutputsOf(c) :
                    /\ validated[i].line \in changed
                    /\ Abs(validated[i].line - c.line) = MinDistance(changed, c.line)
                    /\ validated[i].body = <<NoteFor(c.line)>> \o c.body
             ELSE OutputsOf(c) = {}

\* C5: withRetry never invokes the operation more than retries + 1 times; it
\* rejects only after exactly retries + 1 failed invocations, and while every
\* invocation so far has failed and fewer were made it has not finished.
RetryInvokesNPlusOne ==
  /\ calls <= retries0 + 1
  /\ rpc = "rejected" => calls = retries0 + 1 /\ Len(raised) = retries0 + 1
  /\ (Len(raised) = calls /\ calls = retries0 + 1) => rpc = "rejected"
  /\ (Len(raised) = calls /\ calls < retries0 + 1) => rpc \in {"call", "delay"}

\* withRetry(op, 3) has rejected after 4 invocations.
RetryRejectedAfterFour ==
  rpc = "rejected" /\ retries0 = MAX_RETRIES /\ calls = 4

\* C6: when withRetry rejects, it rejects with the very error the last attempt
\* raised; when an attempt succeeds its value is returned and the operation is
\* not invoked again.
RetryPropagatesLastError ==
  /\ rpc = "rejected" =>
       /\ outcome.kind = "error"
       /\ outcome.error = raised[Len(raised)]
       /\ outcome.error.attempt = calls
  /\ rpc = "returned" =>
       /\ outcome.kind = "value"
       /\ outcome.at = calls
       /\ Len(raised) = calls - 1

\* withRetry has rejected after attempts that raised different errors.
RetryRejectedDifferentErrors ==
  /\ rpc = "rejected"
  /\ Len(raised) >= 2
  /\ raised[1].class # raised[Len(raised)].class

RECURSIVE IsSubSeq(_, _)
IsSubSeq(s, t) ==
  IF s = <<>> THEN TRUE
  ELSE IF t = <<>> THEN FALSE
  ELSE IF Head(s) = Head(t) THEN IsSubSeq(Tail(s), Tail(t))
  ELSE IsSubSeq(s, Tail(t))

OtherBatchErrorPropagates ==
  /\ batchStatus \notin {0, 200, 422} =>
       /\ cpc = "thrown"
       /\ thrown = batchStatus
       /\ singles = <<>>
       /\ idx = 0
       /\ ppc \in {"idle", "review", "thrown"}
  /\ cpc = "thrown" => batchStatus \notin {0, 200, 422}

\* createReview has rejected with a 500 of the batch call for two comments.
BatchFailedWith500 ==
  cpc = "thrown" /\ thrown = 500 /\ Len(validated) = 2

\* C9: the review-creation call is never made with an empty list: when the
\* controller is left with no comment createReview is not called, and when
\* validation leaves none nothing is submitted.
NoEmptyReview ==
  /\ \A i \in 1..Len(batchSent) : batchSent[i] # <<>>
  /\ validated = <<>> => batchSent = <<>> /\ singles = <<>>
  /\ (ppc # "idle" /\ allComments = <<>>) =>
       cpc = "idle" /\ batchSent = <<>> /\ singles = <<>>

\* validateComments has dropped every comment of a call and createReview is over.
AllCommentsDropped ==
  /\ cpc = "done" /\ Len(comments) = 2 /\ ~validateFailed
  /\ validated = <<>> /\ batchSent = <<>>

\* The controller ended with no comment although the LLM reported issues.
NoQualifyingComment ==
  /\ ppc = "done" /\ allComments = <<>>
  /\ \E i \in 1..Len(responses) : Len(responses[i].issues) > 0

RECURSIVE OnPaths(_, _)
OnPaths(cs, paths) ==
  IF cs = <<>> THEN <<>>
  ELSE (IF Head(cs).path \in paths THEN <<Head(cs)>> ELSE <<>>)
         \o OnPaths(Tail(cs), paths)

\* C10: the comments on changed files without a patch pass validateComments
\* with path, line and body unchanged, and so do the mapper's comments for
\* such a file through the controller's filter.
NoPatchPassThrough ==
  /\ cpc \notin {"idle", "start"} =>
       OnPaths(validated, FilesWithoutPatch(prFiles))
         = OnPaths(comments, FilesWithoutPatch(prFiles))
  /\ \A k \in 1..fileIdx :
       ~files[k].hasPatch =>
         OnPaths(allComments, {files[k].path})
           = analyzeCodeContent(files[k].path, files[k].content, responses[k])

\* A review was accepted that carries a comment on the file without a patch,
\* on a line past the end of the other file's changes.
NoPatchCommentSubmitted ==
  /\ ppc = "done" /\ batchStatus = 200
  /\ \E c \in Range(batchSent[1]) : c.path = PathB /\ c.body[1].t = "header"

\* The filenames pulls.listFiles returns for the pull request.
ListedPaths == {prFiles[i].filename : i \in 1..Len(prFiles)}

\* C11: once validateComments has returned, no comment of its output is on a
\* path that is not among the pull request's changed files.
UnlistedPathDropped ==
  cpc \notin {"idle", "start"} =>
    \A i \in 1..Len(validated) : validated[i].path \in ListedPaths

\* What the analyzed files have added to allComments, file after file.
RECURSIVE ContributionsUpTo(_)
ContributionsUpTo(k) ==
  IF k = 0 THEN <<>>
  ELSE ContributionsUpTo(k - 1) \o FileContribution(files[k], fileComments[k])

FileFailureDoesNotAbort ==
  /\ \A k \in 1..Len(responses) :
       responses[k].kind \in {"network", "http"} => fileComments[k] = <<>>
  /\ ppc = "thrown" => (thrown # 0 \/ files = <<>>)
  /\ ppc \in {"review", "done"} => fileIdx = Len(files)

\* The 0-based indices the search of the controller's mapper looks at for an
\* issue, and whether some line there is within tenths/10 of the issue's code
\* (edit distance of the normalized texts over the longer length).
MapperWindow(texts, issue) ==
  {i \in 0..(Len(texts) - 1) :
     /\ i >= SearchStart(Max2(0, issue.line - CallerRange))
     /\ i < SearchEnd(texts, Min({Len(texts), issue.line + CallerRange}))}

ScoreAtMost(target, texts, window, tenths) ==
  \E i \in window :
    LET a == normalizeCode(target)
        b == normalizeCode(texts[i + 1])
    IN /\ Max2(Len(a), Len(b)) > 0
       /\ levenshteinDistance(a, b) * 10 <= tenths * Max2(Len(a), Len(b))

\* The mapper returned a comment for this issue of file k (the description
\* tells the issues of a response apart).
Emitted(k, issue) ==
  \E i \in 1..Len(fileComments[k]) :
    fileComments[k][i].body[2] = DescTok(issue.description)

\* C14 as stated: in the controller's pipeline an issue is emitted only when
\* its best-match score is at most 0.3.
EmittedOnlyUpToThreeTenths ==
  ppc # "idle" =>
    \A k \in 1..fileIdx : \A n \in 1..Len(responses[k].issues) :
      LET issue == responses[k].issues[n] IN
      Emitted(k, issue) =>
        ScoreAtMost(issue.code, files[k].content,
                    MapperWindow(files[k].content, issue), 3)

\* C14 amended: in the controller's pipeline an issue that passes the
\* structural check is emitted exactly when its best-match score is at most
\* 0.5, and discarded when the score is greater than 0.5.
EmittedUpToFiveTenths ==
  ppc # "idle" =>
    \A k \in 1..fileIdx : \A n \in 1..Len(responses[k].issues) :
      LET issue == responses[k].issues[n] IN
      IssueWellFormed(issue) =>
        (Emitted(k, issue) <=>
           ScoreAtMost(issue.code, files[k].content,
                       MapperWindow(files[k].content, issue), ThresholdTenths))

\* A run is over in which the mapper emitted a comment for an issue whose
\* code is one edit of two characters away from the closest line (score 0.5).
HalfMatchEmitted ==
  /\ ppc = "done"
  /\ \E k \in 1..fileIdx : \E n \in 1..Len(responses[k].issues) :
       /\ responses[k].issues[n].code = TextNear
       /\ Emitted(k, responses[k].issues[n])
       /\ ~ScoreAtMost(TextNear, files[k].content,
                       MapperWindow(files[k].content, responses[k].issues[n]), 4)

\* The 0-based indices of the search window whose line, normalized, equals
\* the normalized target.
ExactMatches ==
  {i \in 0..(Len(fileLines) - 1) :
     /\ i >= SearchStart(startLine)
     /\ i < SearchEnd(fileLines, endLine)
     /\ normalizeCode(fileLines[i + 1]) = normalizeCode(targetLine)}

SearchOver == scanIdx >= SearchEnd(fileLines, endLine)

\* C15: when the search is over and some line of the window equals the target
\* after normalization, the result has similarity 0 and the 1-based number of
\* the first such line, for every target.
ExactMatchFound ==
  (SearchOver /\ ExactMatches # {}) =>
    /\ bestMatch.similarity.kind = "num"
    /\ bestMatch.similarity.num = 0
    /\ bestMatch.lineNumber = Min(ExactMatches) + 1

\* The same for the targets that do not normalize to the empty string.
ExactMatchFoundForText ==
  (SearchOver /\ ExactMatches # {} /\ normalizeCode(targetLine) # <<>>) =>
    /\ bestMatch.similarity.kind = "num"
    /\ bestMatch.similarity.num = 0
    /\ bestMatch.lineNumber = Min(ExactMatches) + 1

\* What the search of the controller's mapper returns for an issue.
MapperMatch(texts, issue) ==
  findMostSimilarLine(issue.code, texts,
                      Max2(0, issue.line - CallerRange),
                      Min({Len(texts), issue.line + CallerRange}))

\* C16: for an issue whose search window contains no line, the search returns
\* similarity Infinity and the mapper emits no comment.
EmptyWindowNoComment ==
  ppc # "idle" =>
    \A k \in 1..fileIdx : \A n \in 1..Len(responses[k].issues) :
      LET issue == responses[k].issues[n] IN
      (IssueWellFormed(issue) /\ MapperWindow(files[k].content, issue) = {}) =>
        /\ MapperMatch(files[k].content, issue).similarity = Infinity
        /\ ~Emitted(k, issue)

\* A run is over in which the only issue of a file claimed a line far past
\* the end of the file, quoting a line the file does contain.
FarIssueDiscarded ==
  /\ ppc = "done"
  /\ \E k \in 1..fileIdx :
       /\ Len(responses[k].issues) = 1
       /\ responses[k].issues[1].line = FarLine
       /\ \E i \in 1..Len(files[k].content) :
            files[k].content[i] = responses[k].issues[1].code
       /\ MapperWindow(files[k].content, responses[k].issues[1]) = {}
       /\ fileComments[k] = <<>>

\* C17: once a patch without any line starting with "@@" is scanned, the set
\* returned is empty, whatever its other lines are.
NoHeaderNoChangedLines ==
  (pos = Len(patch) /\ \A i \in 1..Len(patch) : ~StartsWithAtAt(patch[i])) =>
    changedLines = {}

\* The three headers: icon and category of quality, security, performance.
CategoryHeaders ==
  { [t |-> "header", n |-> 0, icon |-> "memo", cat |-> "Quality"],
    [t |-> "header", n |-> 0, icon |-> "lock", cat |-> "Security"],
    [t |-> "header", n |-> 0, icon |-> "zap", cat |-> "Performance"] }

\* C18: the body of every comment the mapper returns begins with one of the
\* three category headers and is matched by the pattern of the reply flow.
HeaderIsOneOfThree ==
  \A k \in 1..Len(fileComments) : \A i \in 1..Len(fileComments[k]) :
    /\ fileComments[k][i].body[1] \in CategoryHeaders
    /\ MatchesCategoryHeader(fileComments[k][i].body)

\* The descriptions of the first n issues of a sequence whose index is in
\* kept, in order, and the descriptions of a sequence of comments.
RECURSIVE DescriptionsOfIssues(_, _, _)
DescriptionsOfIssues(issues, kept, n) ==
  IF n = 0 THEN <<>>
  ELSE DescriptionsOfIssues(issues, kept, n - 1)
         \o (IF n \in kept THEN <<issues[n].description>> ELSE <<>>)

RECURSIVE DescriptionsOfComments(_)
DescriptionsOfComments(cs) ==
  IF cs = <<>> THEN <<>>
  ELSE <<Head(cs).body[2].n>> \o DescriptionsOfComments(Tail(cs))

MissingCredentials(e) ==
  \/ ~e.deepseekKey
  \/ /\ ~(e.githubToken /\ e.githubRepo # "absent")
     /\ ~(e.gitlabToken /\ e.gitlabProject)

\* An event type is set and is not one the entry point supports.
UnsupportedEvent(e) ==
  /\ EventType(e) # ""
  /\ IF e.githubEvent # ""
       THEN EventType(e) \notin {"pull_request", "pull_request_review_comment"}
       ELSE EventType(e) \notin {"merge_request", "note"}

\* C20: with credentials missing or an unsupported event type, the process
\* issues no request and, once over, has a non-zero exit status.
ConfigErrorExitsNonZero ==
  (MissingCredentials(env) \/ UnsupportedEvent(env)) =>
    /\ netCalls = 0
    /\ epc = "exited" => exitCode # 0

\* C25: scanning a line that starts with "@@" without matching the header
\* pattern, or a line that starts with "-", changes neither the counter nor
\* the set; scanning a well-formed header with new-start c sets the counter
\* to c - 1 whatever the counter was.
ScanFrame ==
  [][ pos' = pos + 1 =>
        LET l == patch[pos + 1] IN
          /\ (l = BadHdr \/ l = Del) =>
               /\ currentLine' = currentLine
               /\ changedLines' = changedLines
          /\ l.k = "hdr" =>
               /\ currentLine' = l.c - 1
               /\ changedLines' = changedLines ]_vars

\* A second header was scanned after an added and a removed line of the first
\* hunk: the counter went from 4 back to 0 and the set kept line 3.
HeaderResetAfterRemoval ==
  /\ pos = 4
  /\ patch = <<Hdr(4), Add, Del, Hdr(1)>>
  /\ currentLine = 0
  /\ changedLines = {3}

\* C27: when pulls.get or pulls.listFiles fails inside validateComments,
\* createReview goes on: the validated comments are the input comments, same
\* elements in the same order with no relocation note, and the batch call is
\* attempted with exactly them.
ValidationFailureKeepsComments ==
  validateFailed =>
    /\ validated = comments
    /\ cpc # "start"
    /\ \/ cpc = "batch" /\ batchSent = <<>> /\ thrown = 0
       \/ batchSent = <<comments>>

\* The fetch failed, and the batch went out with a comment the validation
\* would have dropped or moved.
UnvalidatedBatchSent ==
  /\ validateFailed
  /\ cpc = "done"
  /\ batchStatus = 200
  /\ batchSent = <<comments>>
  /\ Len(comments) = 2
  /\ ValidComments(prFiles, comments) # comments

\* The origin of an output comment: its path with the line it was written for.
OriginOf(c) ==
  IF c.body # <<>> /\ c.body[1].t = "note"
    THEN <<c.path, c.body[1].n>>
    ELSE <<c.path, c.line>>

OriginsOf(cs) == [i \in 1..Len(cs) |-> OriginOf(cs[i])]

\* C30: a comment whose line has a changed line below it and one above it at
\* the same, smallest, distance is moved to the lower of the two, and the
\* validated comments keep the order of the input.
SnapTieTakesLower ==
  (cpc \notin {"idle", "start"} /\ ~validateFailed) =>
    /\ IsSubSeq(OriginsOf(validated), OriginsOf(comments))
    /\ \A k \in 1..Len(comments) :
         LET c == comments[k]
             changed == ChangedLinesOf(prFiles, c.path)
         IN (/\ c.path \in PatchedPaths
             /\ c.line \notin changed
             /\ \E d \in 1..SnapDistance :
                  /\ MinDistance(changed \cup {c.line - d}, c.line) = d
                  /\ c.line - d \in changed
                  /\ c.line + d \in changed) =>
              \E i \in OutputsOf(c) :
                /\ validated[i].line < c.line
                /\ validated[i].line \in changed
                /\ Abs(validated[i].line - c.line) = MinDistance(changed, c.line)

\* The strings one edit away from s: a character deleted, a character
\* substituted, a character inserted. No shortest sequence of edits from a to
\* b needs a string longer than the longer of the two.
OneEditFrom(s, maxLen) ==
  {SubSeq(s, 1, i - 1) \o SubSeq(s, i + 1, Len(s)) : i \in 1..Len(s)}
    \cup {[s EXCEPT ![i] = ch] : i \in 1..Len(s), ch \in Alphabet}
    \cup (IF Len(s) < maxLen
            THEN {SubSeq(s, 1, i) \o <<ch>> \o SubSeq(s, i + 1, Len(s)) :
                    i \in 0..Len(s), ch \in Alphabet}
            ELSE {})

\* The strings at most k edits away from a string of S.
RECURSIVE WithinEdits(_, _, _)
WithinEdits(S, k, maxLen) ==
  IF k = 0 THEN S
  ELSE LET near == WithinEdits(S, k - 1, maxLen)
       IN near \cup UNION {OneEditFrom(s, maxLen) : s \in near}

\* The least number of single-character edits that turn a into b.
MinimumEdits(a, b) ==
  LET maxLen == Max2(Len(a), Len(b))
  IN Min({k \in 0..(2 * maxLen) : b \in WithinEdits({a}, k, maxLen)})

\* C24: levenshteinDistance(a, b) is levenshteinDistance(b, a), is 0 when a
\* and b are the same string, is the least number of single-character
\* insertions, deletions and substitutions that turn a into b, and is 3 for
\* "kitten" and "sitting".
LevenshteinIsEditDistance ==
  distance # -1 =>
    /\ distance = levenshteinDistance(strB, strA)
    /\ strA = strB => distance = 0
    /\ (strA \in Strings /\ strB \in Strings) =>
         distance = MinimumEdits(strA, strB)
    /\ {strA, strB} = {Kitten, Sitting} => distance = 3

\* The distance of "kitten" and "sitting" has been computed.
KittenSittingMeasured ==
  strA = Kitten /\ strB = Sitting /\ distance = 3

RECURSIVE Pow2(_)
Pow2(n) == IF n = 0 THEN 1 ELSE 2 * Pow2(n - 1)

\* C29: a call makes at most `retries` requests and ends, returning a
\* response or throwing; a response whose status is neither 429 nor 5xx is
\* returned at once and no request follows it; the wait before the k-th
\* repeated request is initialDelay * 2^(k-1).
FetchBoundedBackoff ==
  /\ [](fpc # "idle" =>
          /\ Len(requests) <= fetchRetries
          /\ \A k \in 1..Len(requests) :
               (requests[k] # NetworkError /\ requests[k] # 429
                  /\ requests[k] < 500) =>
                 /\ k = Len(requests)
                 /\ fpc = "returned"
                 /\ fetchResult = requests[k]
          /\ \A k \in 1..Len(waits) : waits[k] = initialDelay * Pow2(k - 1)
          /\ Len(requests) >= 2 => Len(waits) >= Len(requests) - 1
          /\ fpc = "returned" => fetchResult = requests[Len(requests)]
          /\ fpc = "thrown" =>
               (requests = <<>> \/ requests[Len(requests)] \in {NetworkError, 429, 500}))
  /\ <>(fpc \in {"returned", "thrown"})

\* A client error came back on the third request, after a server error and a
\* network error, each followed by its wait of 1000 and 2000.
ClientErrorAfterTwoRetries ==
  /\ fpc = "returned"
  /\ fetchResult = 400
  /\ requests = <<500, NetworkError, 400>>
  /\ waits = <<1000, 2000>>

\* The spellings of the mention that address the bot.
MentionSpellings == {"@ai", "/ai", "@AI", "@Ai", "@aI", "/AI", "/Ai", "/aI"}

\* The body begins with the mention followed by whitespace.
Addressed(body) ==
  /\ Len(body) >= 2
  /\ body[1].t = "word"
  /\ body[1].w \in MentionSpellings
  /\ body[2].t = "space"

\* C21: the handler sends a request to the LLM or posts a reply only when
\* the body of the comment of the event begins with "@ai" or "/ai", in any
\* letter case, followed by whitespace.
ReplyOnlyWhenAddressed ==
  [][ (replyRequests' > replyRequests \/ replies' > replies) =>
        Addressed(thread[inbound].body) ]_vars

\* A reply went out to a question that begins with "/Ai" and a blank.
ReplyToSlashMention ==
  /\ hpc = "done"
  /\ replies = 1
  /\ replyRequests > 0
  /\ thread[inbound].body = <<Word("/Ai"), Space, Word("why")>>

Max(S) == CHOOSE x \in S : \A y \in S : y <= x

\* The positions of the listed comments that could anchor the comment at
\* position k: another comment of the same path and line, with the category
\* header, placed before it.
AnchorsBefore(all, k) ==
  {i \in 1..(k - 1) :
     /\ all[i].id # all[k].id
     /\ all[i].path = all[k].path
     /\ all[i].line = all[k].line
     /\ MatchesCategoryHeader(all[i].body)}

\* C22: the anchor is another comment of the same path and line with the
\* category header that precedes the comment of the event, the nearest such
\* one; without such a comment no reply is posted.
AnchorIsNearestPreceding ==
  (hpc \in {"content", "generate", "reply"}
     \/ (hpc = "done" /\ listedComments # <<>>)) =>
    LET anchors == AnchorsBefore(listedComments, inbound)
    IN IF anchors = {}
         THEN parent = 0 /\ hpc = "done"
         ELSE parent = listedComments[Max(anchors)].id

\* A body the program wrote: a mapped issue (it begins with the header), a
\* relocated comment (it begins with the note) or a reply (it begins with
\* the quotation mark).
BotWritten(body) ==
  body # <<>> /\ body[1].t \in {"header", "note", "quote"}

\* C28: the handler never posts a reply when the comment of the event is one
\* the program wrote, so the comments it posts do not set off further
\* replies: one comment event leads to one reply at most.
OwnCommentsNeverAnswered ==
  /\ [][ replies' > replies => ~BotWritten(thread[inbound].body) ]_vars
  /\ [](replies <= 1)

\* The event raised for the reply to "@AI @ai why" was handled and ignored:
\* the reply quotes a question that itself begins with the mention.
OwnReplyIgnored ==
  /\ hpc = "done"
  /\ pending = {}
  /\ replies = 1
  /\ inbound = Len(thread)
  /\ thread[inbound].body[1] = Tok("quote", 0)
  /\ thread[inbound].body[2] = Word("@ai")

\* The comments of the first n analyzed files that are on changed lines: file
\* after file in the order of the listing, each file's in the order of its
\* issues.
RECURSIVE GroupedByFile(_)
GroupedByFile(n) ==
  IF n = 0 THEN <<>>
  ELSE GroupedByFile(n - 1) \o KeepOnChangedLines(listing, analyses[n])

\* C23: in whatever order the analyses of the files resolve, the comments
\* handed to the submission are the same list: grouped by file in the order
\* of the file list and, within a file, in the order of the issues.
MergeIndependentOfCompletion ==
  mpc = "done" =>
    /\ Len(settled) = Len(analyses)
    /\ Flat(handed) = GroupedByFile(Len(analyses))
    /\ Len(handed) <= 1

\* The analysis of the last file resolved first and that of the first file
\* last, and comments of both files were handed over, the first file's first.
LastFileResolvedFirst ==
  /\ mpc = "done"
  /\ settled = <<3, 2, 1>>
  /\ Len(handed) = 1
  /\ Len(handed[1]) = 3
  /\ handed[1][1].path = PathA
  /\ handed[1][3].path = PathB

\* C26: a comment the mapper gives for an issue is on a line at most 60 away
\* from the line the issue claims, and between 1 and the number of lines of
\* the content, in analyzeFile and in analyzeCodeContent.
ResolvedLineWithinSixty ==
  \A n \in 1..Len(mapOutput) :
    /\ Abs(mapOutput[n].line - mapIssue.line) <= 60
    /\ mapOutput[n].line >= 1
    /\ mapOutput[n].line <= Len(mapTexts)

====
